---- MODULE Spec2Model ----
(***************************************************************************)
(* A model of est_alan_scheduler: the Task entity (task.py), the           *)
(* TaskRegistry with its two-phase tick (task_registry.py) and the threads *)
(* that call it.                                                           *)
(*                                                                         *)
(* Task objects live in a heap (objs) and are referred to by index, since  *)
(* the registry stores the caller's object, update() mutates it in place   *)
(* and a tick keeps references to the objects it queued.  Optional values  *)
(* are sequences of length at most one: None is <<>>, a value v is <<v>>.  *)
(*                                                                         *)
(* Time is a natural number of seconds.  The calendar is scaled down: a    *)
(* minute has SecPerMin seconds, an hour MinPerHour minutes, a day         *)
(* HoursPerDay hours.                                                      *)
(*                                                                         *)
(* Atomicity.  register, update, delete and phase 1 of tick run under      *)
(* TaskRegistry._lock and are one step each.  Phase 2 holds no lock.  With *)
(* one ticking thread (Spec) no other thread reads or writes the runtime   *)
(* fields of a task, so what _execute_task_logic does after the work       *)
(* function has returned or raised is one step.  With several ticking      *)
(* threads (SpecOverlap) every statement of it is a step of its own, and   *)
(* so is now = datetime.now() at the start of tick.                        *)
(*                                                                         *)
(* Callers.  Tasks are registered as constructed, with the runtime fields  *)
(* at their defaults.  A work function returns a value or raises an        *)
(* Exception, call by call; each call returns a value of its own, so that  *)
(* a result tells which call produced it.  repr() and str() do not raise.  *)
(***************************************************************************)
EXTENDS Integers, Sequences, FiniteSets, TLC

\* ---------------------------------------------------------------- bounds
MaxTime == 3
MaxTimeOverlap == 2
MaxObjs == 2
SecPerMin == 1
MinPerHour == 1
HoursPerDay == 2
\* the largest count in an every mapping passed to Task(...)
MaxCount == 1

\* ------------------------------------------------------------ basic values
None == <<>>
Some(v) == <<v>>
Val(o) == o[1]

PENDING == "pending"
RUNNING == "running"
SUCCESS == "success"
FAILED == "failed"

Ids == {"A", "B"}
Driver == "driver"
Direct == "direct"
Tickers == {Driver, Direct}

EmptyMap == [k \in {} |-> 0]
MapOf(k, v) == [x \in {k} |-> v]

\* {**a, **b}: the entries of b win
Merge(a, b) == [k \in (DOMAIN a) \cup (DOMAIN b) |-> IF k \in DOMAIN b THEN b[k] ELSE a[k]]

\* ------------------------------------------------------------------ inputs
\* The schedules a caller passes: the three valid kinds, none, and two at once.
EveryIn == MapOf("seconds", 2)
AtIn == <<1, 0>>
RunAtIn == 1
Schedules ==
    { [every |-> Some(EveryIn), at |-> None, run_at |-> None],
      [every |-> None, at |-> Some(AtIn), run_at |-> None],
      [every |-> None, at |-> None, run_at |-> Some(RunAtIn)],
      [every |-> None, at |-> None, run_at |-> None],
      [every |-> Some(EveryIn), at |-> Some(AtIn), run_at |-> None] }

\* The work a caller passes.  A work function returns or raises, call by call.
\* register is given f; update replaces it by g, with other arguments and tags.
NewWork == [func |-> "f", args |-> <<1>>, kwargs |-> MapOf("b", 2), tags |-> <<>>]
UpdWork == [func |-> "g", args |-> <<>>, kwargs |-> EmptyMap, tags |-> <<"t">>]

\* Task(...): a freshly constructed task, runtime fields at their defaults
Task(id, s, w, deps) ==
    [ id |-> id, tags |-> w.tags,
      every |-> s.every, at |-> s.at, run_at |-> s.run_at,
      func |-> w.func, args |-> w.args, kwargs |-> w.kwargs, depends_on |-> deps,
      status |-> PENDING, last_success_at |-> None, last_run_at |-> None,
      result |-> None, error_message |-> None, history |-> <<>> ]

\* ------------------------------------------------------------------- state
VARIABLES
    clock,      \* datetime.now(), in seconds
    objs,       \* the heap: the live Task objects, by reference
    store,      \* TaskRegistry.store: a dict in insertion order, <<[key, ref]>>
    nalloc,     \* number of Task objects registered so far
    pc,         \* per ticking thread: where it is in tick()
    now,        \* per ticking thread: tick's local now
    queue,      \* per ticking thread: tick's local tasks_to_execute_info
    cur,        \* per ticking thread: the item _execute_task_logic is running
    made,       \* per ticking thread: the calls of work functions its tick has made
    ev,         \* what the last step did: the call made and how it ended
    lock        \* TaskRegistry._lock: the thread inside a with self._lock block, if any

vars == <<clock, objs, store, nalloc, pc, now, queue, cur, made, ev, lock>>

\* ------------------------------------------------------------------ store
StoreKeys(st) == {st[i].key : i \in DOMAIN st}
StoreRefs(st) == {st[i].ref : i \in DOMAIN st}
\* store[k], for k in the store
StoreGet(st, k) == (CHOOSE i \in DOMAIN st : st[i].key = k)
StoreRef(st, k) == st[StoreGet(st, k)].ref
\* del store[k]
StoreDel(st, k) == SelectSeq(st, LAMBDA e : e.key # k)

\* --------------------------------------------------------- pure functions
\* sum(opt is not None for opt in (task.every, task.at, task.run_at))
ScheduleCount(task) ==
    (IF task.every # None THEN 1 ELSE 0) + (IF task.at # None THEN 1 ELSE 0)
        + (IF task.run_at # None THEN 1 ELSE 0)

\* _deps_ready without the test of last_success_at
DepsPresent(task, st, heap) ==
    \A i \in DOMAIN task.depends_on : task.depends_on[i] \in StoreKeys(st)

\* _deps_ready testing the dependency's status in place of last_success_at
DepsNowSuccess(task, st, heap) ==
    \A i \in DOMAIN task.depends_on :
        /\ task.depends_on[i] \in StoreKeys(st)
        /\ heap[StoreRef(st, task.depends_on[i])].status = SUCCESS

\* _deps_ready passing over a dependency that is not in the store
DepsReadyUnlessAbsent(task, st, heap) ==
    \A i \in DOMAIN task.depends_on :
        task.depends_on[i] \in StoreKeys(st) =>
            heap[StoreRef(st, task.depends_on[i])].last_success_at # None

\* _deps_ready: every dependency is in the store and has succeeded once
DepsReady(task, st, heap) ==
    \A i \in DOMAIN task.depends_on :
        /\ task.depends_on[i] \in StoreKeys(st)
        /\ heap[StoreRef(st, task.depends_on[i])].last_success_at # None

\* the calendar of datetime, scaled down
MinLen == SecPerMin
HourLen == MinPerHour * MinLen
DayLen == HoursPerDay * HourLen
\* datetime.date()
DateOf(t) == t \div DayLen
\* now.replace(hour=hh, minute=mm, second=0, microsecond=0)
ReplaceTime(t, hh, mm) == DateOf(t) * DayLen + hh * HourLen + mm * MinLen

\* the length in seconds of a unit of timedelta(**every); the clock does not
\* resolve the units below a second
UnitLen(u) ==
    CASE u = "seconds" -> 1
      [] u = "minutes" -> MinLen
      [] u = "hours" -> HourLen
      [] u = "days" -> DayLen
      [] u = "weeks" -> 7 * DayLen

RECURSIVE SumUnits(_, _)
SumUnits(every, units) ==
    IF units = {} THEN 0
    ELSE LET u == CHOOSE x \in units : TRUE
         IN every[u] * UnitLen(u) + SumUnits(every, units \ {u})

\* timedelta(**task.every)
Timedelta(every) == SumUnits(every, DOMAIN every)

\* the run_at branch retrying a task that failed
RunAtDueRetry(task, t) ==
    (task.last_run_at = None \/ task.status = FAILED) /\ t >= Val(task.run_at)

\* _should_run, the run_at branch: due, and never attempted
RunAtDue(task, t) ==
    task.last_run_at = None /\ t >= Val(task.run_at)

\* the at branch looking at last_success_at in place of last_run_at
AtDueUnlessSucceeded(task, t) ==
    /\ t >= ReplaceTime(t, Val(task.at)[1], Val(task.at)[2])
    /\ ~(task.last_success_at # None /\ DateOf(Val(task.last_success_at)) = DateOf(t))

\* _should_run, the at branch: past today's HH:MM, and not attempted today
AtDue(task, t) ==
    /\ t >= ReplaceTime(t, Val(task.at)[1], Val(task.at)[2])
    /\ ~(task.last_run_at # None /\ DateOf(Val(task.last_run_at)) = DateOf(t))

\* the every branch with > in place of >=
EveryDueStrict(task, t) ==
    \/ task.last_run_at = None
    \/ t - Val(task.last_run_at) > Timedelta(Val(task.every))

\* _should_run, the every branch: never attempted, or the interval has passed
EveryDue(task, t) ==
    \/ task.last_run_at = None
    \/ t - Val(task.last_run_at) >= Timedelta(Val(task.every))

\* _should_run: the time condition of the task's schedule kind
ShouldRun(task, t) ==
    IF task.run_at # None THEN RunAtDue(task, t)
    ELSE IF task.at # None THEN AtDue(task, t)
    ELSE IF task.every # None THEN EveryDue(task, t)
    ELSE FALSE

\* the key without the dep_ prefix
DepKeyBare(id) == id

\* f"dep_{dep_id}"
DepKey(id) == "dep_" \o id

\* repr(task.result)
Repr(v) == <<"repr", v>>

\* f"{type(exc).__name__}: {exc}" of the exception a work function raises
BoomError == "ValueError: boom"
\* f"Dependency data not found during tick: {e}"
DepError(id) == "Dependency data not found during tick: '" \o id \o "'"

\* the dependency results tick collects under the lock, for dependencies that
\* are all in the store
DepKwargs(task, st, heap) ==
    [ k \in {DepKey(task.depends_on[i]) : i \in DOMAIN task.depends_on} |->
        LET i == CHOOSE j \in DOMAIN task.depends_on : DepKey(task.depends_on[j]) = k
        IN heap[StoreRef(st, task.depends_on[i])].result ]

\* the first dependency whose store[dep_id] raises KeyError, or 0
FirstMissing(task, st) ==
    LET miss == {i \in DOMAIN task.depends_on : task.depends_on[i] \notin StoreKeys(st)}
    IN IF miss = {} THEN 0 ELSE CHOOSE i \in miss : \A j \in miss : i <= j

\* the loop body without the call of _deps_ready
ExamineUngated(task, t, st, heap) ==
    IF task.status = RUNNING THEN [task |-> task, run |-> FALSE]
    ELSE IF ~ShouldRun(task, t) THEN [task |-> task, run |-> FALSE]
    ELSE IF FirstMissing(task, st) # 0
    THEN LET msg == DepError(task.depends_on[FirstMissing(task, st)])
         IN [task |-> [task EXCEPT !.status = FAILED, !.error_message = Some(msg),
                                   !.last_run_at = Some(t),
                                   !.history = Append(@, [run_at |-> t, status |-> FAILED,
                                                          result |-> None,
                                                          error |-> Some(msg)])],
             run |-> FALSE]
    ELSE [task |-> [task EXCEPT !.status = RUNNING, !.last_run_at = Some(t),
                                !.error_message =
                                    IF @ # None /\ RUNNING # FAILED THEN None ELSE @],
          run |-> TRUE]

\* the loop body marking Pending a task that is not due or whose dependencies
\* are not ready
ExamineMarksPending(task, t, st, heap) ==
    IF task.status = RUNNING THEN [task |-> task, run |-> FALSE]
    ELSE IF ~(ShouldRun(task, t) /\ DepsReady(task, st, heap))
    THEN [task |-> [task EXCEPT !.status = PENDING], run |-> FALSE]
    ELSE IF FirstMissing(task, st) # 0
    THEN LET msg == DepError(task.depends_on[FirstMissing(task, st)])
         IN [task |-> [task EXCEPT !.status = FAILED, !.error_message = Some(msg),
                                   !.last_run_at = Some(t),
                                   !.history = Append(@, [run_at |-> t, status |-> FAILED,
                                                          result |-> None,
                                                          error |-> Some(msg)])],
             run |-> FALSE]
    ELSE [task |-> [task EXCEPT !.status = RUNNING, !.last_run_at = Some(t),
                                !.error_message =
                                    IF @ # None /\ RUNNING # FAILED THEN None ELSE @],
          run |-> TRUE]

\* the loop body selecting a task without marking it Running
ExamineUnmarked(task, t, st, heap) ==
    IF task.status = RUNNING THEN [task |-> task, run |-> FALSE]
    ELSE IF ~(ShouldRun(task, t) /\ DepsReady(task, st, heap))
    THEN [task |-> task, run |-> FALSE]
    ELSE [task |-> [task EXCEPT !.last_run_at = Some(t)], run |-> TRUE]

\* the loop body stamping last_run_at on the tasks it passes over as well
ExamineStampsAll(task, t, st, heap) ==
    IF task.status = RUNNING THEN [task |-> task, run |-> FALSE]
    ELSE IF ~(ShouldRun(task, t) /\ DepsReady(task, st, heap))
    THEN [task |-> [task EXCEPT !.last_run_at = Some(t)], run |-> FALSE]
    ELSE [task |-> [task EXCEPT !.status = RUNNING, !.last_run_at = Some(t),
                                !.error_message = None],
          run |-> TRUE]

\* the loop body leaving the error of an earlier failure on the task it selects
ExamineKeepsError(task, t, st, heap) ==
    IF task.status = RUNNING THEN [task |-> task, run |-> FALSE]
    ELSE IF ~(ShouldRun(task, t) /\ DepsReady(task, st, heap))
    THEN [task |-> task, run |-> FALSE]
    ELSE [task |-> [task EXCEPT !.status = RUNNING, !.last_run_at = Some(t)],
          run |-> TRUE]

\* the loop body marking a task Running without the stamp of last_run_at
ExamineUnstamped(task, t, st, heap) ==
    IF task.status = RUNNING THEN [task |-> task, run |-> FALSE]
    ELSE IF ~(ShouldRun(task, t) /\ DepsReady(task, st, heap))
    THEN [task |-> task, run |-> FALSE]
    ELSE [task |-> [task EXCEPT !.status = RUNNING, !.error_message = None],
          run |-> TRUE]

\* the loop body without the skip of the tasks that are Running
ExamineRunning(task, t, st, heap) ==
    IF ~(ShouldRun(task, t) /\ DepsReady(task, st, heap))
    THEN [task |-> task, run |-> FALSE]
    ELSE [task |-> [task EXCEPT !.status = RUNNING, !.last_run_at = Some(t),
                                !.error_message = None],
          run |-> TRUE]

\* tick, phase 1, the loop body: the task as it leaves it, and whether it
\* queues the task for phase 2
Examine(task, t, st, heap) ==
    IF task.status = RUNNING THEN [task |-> task, run |-> FALSE]
    ELSE IF ~(ShouldRun(task, t) /\ DepsReady(task, st, heap))
    THEN [task |-> task, run |-> FALSE]
    ELSE IF FirstMissing(task, st) # 0
    THEN LET msg == DepError(task.depends_on[FirstMissing(task, st)])
         IN [task |-> [task EXCEPT !.status = FAILED, !.error_message = Some(msg),
                                   !.last_run_at = Some(t),
                                   !.history = Append(@, [run_at |-> t, status |-> FAILED,
                                                          result |-> None,
                                                          error |-> Some(msg)])],
             run |-> FALSE]
    ELSE [task |-> [task EXCEPT !.status = RUNNING, !.last_run_at = Some(t),
                                !.error_message =
                                    IF @ # None /\ RUNNING # FAILED THEN None ELSE @],
          run |-> TRUE]

\* the loop body with the except KeyError branch a silent skip
ExamineAtSkips(task, t, st, heap, st2) ==
    IF task.status = RUNNING THEN [task |-> task, run |-> FALSE]
    ELSE IF ~(ShouldRun(task, t) /\ DepsReady(task, st, heap))
    THEN [task |-> task, run |-> FALSE]
    ELSE IF FirstMissing(task, st2) # 0
    THEN [task |-> task, run |-> FALSE]
    ELSE [task |-> [task EXCEPT !.status = RUNNING, !.last_run_at = Some(t),
                                !.error_message =
                                    IF @ # None /\ RUNNING # FAILED THEN None ELSE @],
          run |-> TRUE]

\* the loop body when the store is written without the lock while it runs:
\* _deps_ready reads the store st, the collection of the results reads st2
ExamineAt(task, t, st, heap, st2) ==
    IF task.status = RUNNING THEN [task |-> task, run |-> FALSE]
    ELSE IF ~(ShouldRun(task, t) /\ DepsReady(task, st, heap))
    THEN [task |-> task, run |-> FALSE]
    ELSE IF FirstMissing(task, st2) # 0
    THEN LET msg == DepError(task.depends_on[FirstMissing(task, st2)])
         IN [task |-> [task EXCEPT !.status = FAILED, !.error_message = Some(msg),
                                   !.last_run_at = Some(t),
                                   !.history = Append(@, [run_at |-> t, status |-> FAILED,
                                                          result |-> None,
                                                          error |-> Some(msg)])],
             run |-> FALSE]
    ELSE [task |-> [task EXCEPT !.status = RUNNING, !.last_run_at = Some(t),
                                !.error_message =
                                    IF @ # None /\ RUNNING # FAILED THEN None ELSE @],
          run |-> TRUE]

\* the loop of phase 1 over the keys of st when the key d is deleted from the
\* store, without the lock, between _deps_ready and the collection of the
\* results for the k-th key: self.store.get finds no task under d from then on
RECURSIVE Phase1LoopVanish(_, _, _, _, _, _, _)
Phase1LoopVanish(i, t, st, heap, q, k, d) ==
    IF i > Len(st) THEN [heap |-> heap, queue |-> q]
    ELSE IF i > k /\ st[i].key = d THEN Phase1LoopVanish(i + 1, t, st, heap, q, k, d)
    ELSE LET r == st[i].ref
             seen == IF i <= k THEN st ELSE StoreDel(st, d)
             read == IF i < k THEN st ELSE StoreDel(st, d)
             e == ExamineAt(heap[r], t, seen, heap, read)
             heap2 == [heap EXCEPT ![r] = e.task]
             q2 == IF e.run
                   THEN Append(q, [task |-> r, dep_kwargs |-> DepKwargs(heap[r], read, heap),
                                   run_time |-> t])
                   ELSE q
         IN Phase1LoopVanish(i + 1, t, st, heap2, q2, k, d)

\* the loop of phase 1 putting each selected task at the front of the list
RECURSIVE Phase1LoopFront(_, _, _, _, _)
Phase1LoopFront(i, t, st, heap, q) ==
    IF i > Len(st) THEN [heap |-> heap, queue |-> q]
    ELSE LET r == st[i].ref
             e == Examine(heap[r], t, st, heap)
             heap2 == [heap EXCEPT ![r] = e.task]
             q2 == IF e.run
                   THEN <<[task |-> r, dep_kwargs |-> DepKwargs(heap[r], st, heap),
                           run_time |-> t]>> \o q
                   ELSE q
         IN Phase1LoopFront(i + 1, t, st, heap2, q2)

\* tick, phase 1: the loop over list(self.store.keys()), from the i-th key on;
\* st is the store, heap the task objects so far, q the items queued so far
RECURSIVE Phase1Loop(_, _, _, _, _)
Phase1Loop(i, t, st, heap, q) ==
    IF i > Len(st) THEN [heap |-> heap, queue |-> q]
    ELSE LET r == st[i].ref
             e == Examine(heap[r], t, st, heap)
             heap2 == [heap EXCEPT ![r] = e.task]
             q2 == IF e.run
                   THEN Append(q, [task |-> r, dep_kwargs |-> DepKwargs(heap[r], st, heap),
                                   run_time |-> t])
                   ELSE q
         IN Phase1Loop(i + 1, t, st, heap2, q2)

\* ------------------------------------------------- _execute_task_logic
\* task.result = task.func(...), the call having returned v
StResult(task, v) == [task EXCEPT !.result = Some(v)]
\* task.status = TaskStatus.SUCCESS
StSuccess(task) == [task EXCEPT !.status = SUCCESS]
\* task.last_success_at = datetime.now()
StStamp(task, t) == [task EXCEPT !.last_success_at = Some(t)]
\* task.error_message = None
StClear(task) == [task EXCEPT !.error_message = None]
\* the except branch leaving the status as phase 1 set it
StFailedNot(task) == task
\* except Exception: task.status = TaskStatus.FAILED
StFailed(task) == [task EXCEPT !.status = FAILED]
\* task.error_message = f"{type(exc).__name__}: {exc}"
StError(task) == [task EXCEPT !.error_message = Some(BoomError)]
\* the record with repr(task.result) whatever the status
HistoryEntryWithResult(task, run_time) ==
    [run_at |-> run_time, status |-> task.status,
     result |-> Some(Repr(task.result)),
     error |-> IF task.status = FAILED THEN task.error_message ELSE None]

\* the record the finally block appends
HistoryEntry(task, run_time) ==
    [run_at |-> run_time, status |-> task.status,
     result |-> IF task.status = SUCCESS THEN Some(Repr(task.result)) ELSE None,
     error |-> IF task.status = FAILED THEN task.error_message ELSE None]
\* the finally block putting its record in front of the history
StHistoryFirst(task, run_time) ==
    [task EXCEPT !.history = <<HistoryEntry(task, run_time)>> \o @]

\* finally: task.history.append(...)
StHistory(task, run_time) ==
    [task EXCEPT !.history = Append(@, HistoryEntry(task, run_time))]

\* the success branch stamping last_success_at with the now of the tick
OnReturnStampsTick(task, v, t, run_time) ==
    StHistory(StClear(StStamp(StSuccess(StResult(task, v)), run_time)), run_time)
\* _execute_task_logic from the return of the work function on
OnReturn(task, v, t, run_time) ==
    StHistory(StClear(StStamp(StSuccess(StResult(task, v)), t)), run_time)
\* the except branch without the record of the finally block
OnRaiseUnrecorded(task, run_time) ==
    StError(StFailed(task))
\* the except branch resetting last_success_at
OnRaiseClearsSuccess(task, run_time) ==
    StHistory(StError(StFailed([task EXCEPT !.last_success_at = None])), run_time)
\* the except branch resetting the result of the task
OnRaiseClearsResult(task, run_time) ==
    StHistory(StError(StFailed([task EXCEPT !.result = None])), run_time)
\* _execute_task_logic from the exception of the work function on
OnRaise(task, run_time) ==
    StHistory(StError(StFailed(task)), run_time)

\* ------------------------------------------------------------------- Init
\* no call of a registry method has just ended
Quiet == [op |-> "none"]

\* TaskRegistry(): an empty store; no thread is inside tick
Init ==
    /\ clock = 0
    /\ objs = <<>>
    /\ store = <<>>
    /\ nalloc = 0
    /\ pc = [t \in Tickers |-> "idle"]
    /\ now = [t \in Tickers |-> 0]
    /\ queue = [t \in Tickers |-> <<>>]
    /\ cur = [t \in Tickers |-> None]
    /\ made = [t \in Tickers |-> {}]
    /\ ev = Quiet
    /\ lock = None

tickVars == <<pc, now, queue, cur, made, lock>>

\* the Task objects something still refers to: the store, the lists and the
\* frames of the ticks in progress.  Python frees the others.
Live(heap, st, q, c) ==
    [r \in { x \in DOMAIN heap :
                \/ x \in StoreRefs(st)
                \/ \E t \in Tickers : \E i \in DOMAIN q[t] : q[t][i].task = x
                \/ \E t \in Tickers : c[t] # None /\ Val(c[t]).task = x }
        |-> heap[r]]

\* the passing of time, up to the horizon max
Elapse(max) ==
    /\ ev = Quiet
    /\ clock < max
    /\ clock' = clock + 1
    /\ ev' = Quiet
    /\ UNCHANGED <<objs, store, nalloc, tickVars>>

AdvanceClock == Elapse(MaxTime)

\* ------------------------------------------------------ registry operations
\* what a call of register or update is recorded with: the method, the task
\* passed, how the call ended and the object returned
CallOf(op, task, out, ret) ==
    [op |-> op, id |-> task.id, task |-> task, out |-> out, ret |-> ret]

\* register without the count of the schedule options
RegisterUnvalidated(task) ==
    /\ ev = Quiet
    /\ lock = None
    /\ nalloc < MaxObjs
    /\ IF task.id \in StoreKeys(store)
       THEN /\ ev' = CallOf("register", task, "ValueError: duplicate", None)
            /\ UNCHANGED <<objs, store, nalloc>>
       ELSE /\ objs' = [r \in DOMAIN objs \cup {nalloc + 1} |->
                            IF r = nalloc + 1 THEN task ELSE objs[r]]
            /\ store' = Append(store, [key |-> task.id, ref |-> nalloc + 1])
            /\ nalloc' = nalloc + 1
            /\ ev' = CallOf("register", task, "returned", Some(nalloc + 1))
    /\ UNCHANGED <<clock, tickVars>>

\* register without the test of task.id in self.store: a second task takes
\* the id of the first
RegisterOverwrites(task) ==
    /\ ev = Quiet
    /\ lock = None
    /\ nalloc < MaxObjs
    /\ IF ScheduleCount(task) # 1
       THEN /\ ev' = CallOf("register", task, "ValueError: schedule", None)
            /\ UNCHANGED <<objs, store, nalloc>>
       ELSE /\ store' = Append(StoreDel(store, task.id), [key |-> task.id, ref |-> nalloc + 1])
            /\ objs' = Live([r \in DOMAIN objs \cup {nalloc + 1} |->
                                IF r = nalloc + 1 THEN task ELSE objs[r]], store', queue, cur)
            /\ nalloc' = nalloc + 1
            /\ ev' = CallOf("register", task, "returned", Some(nalloc + 1))
    /\ UNCHANGED <<clock, tickVars>>

\* TaskRegistry.register(task)
Register(task) ==
    /\ ev = Quiet
    /\ lock = None
    /\ nalloc < MaxObjs
    /\ IF ScheduleCount(task) # 1
       THEN /\ ev' = CallOf("register", task, "ValueError: schedule", None)
            /\ UNCHANGED <<objs, store, nalloc>>
       ELSE IF task.id \in StoreKeys(store)
       THEN /\ ev' = CallOf("register", task, "ValueError: duplicate", None)
            /\ UNCHANGED <<objs, store, nalloc>>
       ELSE /\ objs' = [r \in DOMAIN objs \cup {nalloc + 1} |->
                            IF r = nalloc + 1 THEN task ELSE objs[r]]
            /\ store' = Append(store, [key |-> task.id, ref |-> nalloc + 1])
            /\ nalloc' = nalloc + 1
            /\ ev' = CallOf("register", task, "returned", Some(nalloc + 1))
    /\ UNCHANGED <<clock, tickVars>>

\* add_task_dynamically(task): the contract of register, for use at run time.
\* Validates the schedule options, then the id; stores the task and returns it.
AddTaskDynamically(task) ==
    /\ ev = Quiet
    /\ lock = None
    /\ nalloc < MaxObjs
    /\ IF ScheduleCount(task) # 1
       THEN /\ ev' = CallOf("add_task_dynamically", task, "ValueError: schedule", None)
            /\ UNCHANGED <<objs, store, nalloc>>
       ELSE IF task.id \in StoreKeys(store)
       THEN /\ ev' = CallOf("add_task_dynamically", task, "ValueError: duplicate", None)
            /\ UNCHANGED <<objs, store, nalloc>>
       ELSE /\ objs' = [r \in DOMAIN objs \cup {nalloc + 1} |->
                            IF r = nalloc + 1 THEN task ELSE objs[r]]
            /\ store' = Append(store, [key |-> task.id, ref |-> nalloc + 1])
            /\ nalloc' = nalloc + 1
            /\ ev' = CallOf("add_task_dynamically", task, "returned", Some(nalloc + 1))
    /\ UNCHANGED <<clock, tickVars>>

\* Task.update copying every field of the argument but the id
TaskUpdateAll(self, task) ==
    [task EXCEPT !.id = self.id]

\* Task.update without the assignment of func, args and kwargs
TaskUpdateKeepsWork(self, task) ==
    [self EXCEPT !.tags = task.tags,
                 !.every = task.every, !.at = task.at, !.run_at = task.run_at,
                 !.depends_on = task.depends_on]

\* Task.update without the assignment of depends_on
TaskUpdateKeepsDeps(self, task) ==
    [self EXCEPT !.tags = task.tags,
                 !.every = task.every, !.at = task.at, !.run_at = task.run_at,
                 !.func = task.func, !.args = task.args, !.kwargs = task.kwargs]

\* Task.update(task): the definition of the argument, the runtime state kept
TaskUpdate(self, task) ==
    [self EXCEPT !.tags = task.tags,
                 !.every = task.every, !.at = task.at, !.run_at = task.run_at,
                 !.func = task.func, !.args = task.args, !.kwargs = task.kwargs,
                 !.depends_on = task.depends_on]

\* update without the validation of the schedule options
UpdateUnvalidated(task) ==
    /\ ev = Quiet
    /\ lock = None
    /\ IF task.id \notin StoreKeys(store)
       THEN /\ ev' = CallOf("update", task, "KeyError", None)
            /\ UNCHANGED <<objs, store>>
       ELSE /\ objs' = [objs EXCEPT ![StoreRef(store, task.id)] = TaskUpdate(@, task)]
            /\ ev' = CallOf("update", task, "returned", None)
            /\ UNCHANGED store
    /\ UNCHANGED <<clock, nalloc, tickVars>>

\* update validating the schedule after the stored task was written
UpdateThenValidate(task) ==
    /\ ev = Quiet
    /\ lock = None
    /\ IF task.id \notin StoreKeys(store)
       THEN /\ ev' = CallOf("update", task, "KeyError", None)
            /\ UNCHANGED <<objs, store>>
       ELSE /\ objs' = [objs EXCEPT ![StoreRef(store, task.id)] = TaskUpdate(@, task)]
            /\ ev' = CallOf("update", task,
                            IF ScheduleCount(task) # 1 THEN "ValueError: schedule"
                            ELSE "returned", None)
            /\ UNCHANGED store
    /\ UNCHANGED <<clock, nalloc, tickVars>>

\* TaskRegistry.update(task)
Update(task) ==
    /\ ev = Quiet
    /\ lock = None
    /\ IF ScheduleCount(task) # 1
       THEN /\ ev' = CallOf("update", task, "ValueError: schedule", None)
            /\ UNCHANGED <<objs, store>>
       ELSE IF task.id \notin StoreKeys(store)
       THEN /\ ev' = CallOf("update", task, "KeyError", None)
            /\ UNCHANGED <<objs, store>>
       ELSE /\ objs' = [objs EXCEPT ![StoreRef(store, task.id)] = TaskUpdate(@, task)]
            /\ ev' = CallOf("update", task, "returned", None)
            /\ UNCHANGED store
    /\ UNCHANGED <<clock, nalloc, tickVars>>

\* TaskRegistry.delete(task_id)
Delete(id) ==
    /\ ev = Quiet
    /\ lock = None
    /\ store' = IF id \in StoreKeys(store) THEN StoreDel(store, id) ELSE store
    /\ objs' = Live(objs, store', queue, cur)
    /\ ev' = [op |-> "delete", id |-> id, out |-> "returned", ret |-> None]
    /\ UNCHANGED <<clock, nalloc, tickVars>>

\* the lock taken by tick and not released before phase 2
LockBlockHolds(t, n) ==
    /\ ev = Quiet
    /\ lock = None
    /\ LET r == Phase1Loop(1, n, store, objs, <<>>)
       IN /\ objs' = r.heap
          /\ queue' = [queue EXCEPT ![t] = r.queue]
    /\ now' = [now EXCEPT ![t] = n]
    /\ pc' = [pc EXCEPT ![t] = "exec"]
    /\ made' = [made EXCEPT ![t] = {}]
    /\ lock' = Some(t)
    /\ ev' = Quiet
    /\ UNCHANGED <<clock, store, nalloc, cur>>

\* ------------------------------------------------------------------- tick
\* tick(), the with self._lock block: with n the value of now, the due and
\* ready tasks are marked RUNNING and queued
LockBlock(t, n) ==
    /\ ev = Quiet
    /\ lock = None
    /\ LET r == Phase1Loop(1, n, store, objs, <<>>)
       IN /\ objs' = r.heap
          /\ queue' = [queue EXCEPT ![t] = r.queue]
    /\ now' = [now EXCEPT ![t] = n]
    /\ pc' = [pc EXCEPT ![t] = "exec"]
    /\ made' = [made EXCEPT ![t] = {}]
    /\ lock' = None
    /\ ev' = Quiet
    /\ UNCHANGED <<clock, store, nalloc, cur>>

\* tick(), phase 1: now = datetime.now() and the with self._lock block.  Between
\* the two a thread that does not tick can only call register, update or
\* delete, which read no clock: they may as well come first.
Phase1(t) ==
    /\ pc[t] = "idle"
    /\ LockBlock(t, clock)

\* a call of a work function: the n-th execution of the task object r
CallId(r, n) == <<r, n>>
\* the value a call of a work function returns, if it returns: one per call
ResultOf(call) == call

\* what task.func(*task.args, **{**task.kwargs, **dep_kwargs}) calls for a
\* queued item, the task objects being heap when the call is made
PendingCall(item, heap) ==
    [func |-> heap[item.task].func, args |-> heap[item.task].args,
     kwargs |-> Merge(heap[item.task].kwargs, item.dep_kwargs)]

\* the call with the dependency results read when the work is called, not
\* when the task was selected
InvokeLate(t) ==
    /\ ev = Quiet
    /\ pc[t] = "exec"
    /\ queue[t] # <<>>
    /\ LET item == Head(queue[t])
           task == objs[item.task]
           late == IF FirstMissing(task, store) = 0
                   THEN DepKwargs(task, store, objs) ELSE item.dep_kwargs
       IN cur' = [cur EXCEPT ![t] = Some([task |-> item.task, run_time |-> item.run_time,
                                          dep_kwargs |-> late,
                                          func |-> task.func, args |-> task.args,
                                          kwargs |-> Merge(task.kwargs, late),
                                          call |-> CallId(item.task, Len(task.history) + 1)])]
    /\ made' = [made EXCEPT ![t] = @ \cup {CallId(Head(queue[t]).task,
                                                 Len(objs[Head(queue[t]).task].history) + 1)}]
    /\ queue' = [queue EXCEPT ![t] = Tail(@)]
    /\ pc' = [pc EXCEPT ![t] = "work"]
    /\ ev' = Quiet
    /\ UNCHANGED <<clock, objs, store, nalloc, now, lock>>

\* _execute_task_logic, the call task.func(*task.args, **{**task.kwargs, **dep_kwargs})
\* for the next queued item
Invoke(t) ==
    /\ ev = Quiet
    /\ pc[t] = "exec"
    /\ queue[t] # <<>>
    /\ LET item == Head(queue[t])
           task == objs[item.task]
       IN cur' = [cur EXCEPT ![t] = Some([task |-> item.task, run_time |-> item.run_time,
                                          dep_kwargs |-> item.dep_kwargs,
                                          func |-> task.func, args |-> task.args,
                                          kwargs |-> Merge(task.kwargs, item.dep_kwargs),
                                          call |-> CallId(item.task, Len(task.history) + 1)])]
    /\ made' = [made EXCEPT ![t] = @ \cup {CallId(Head(queue[t]).task,
                                                 Len(objs[Head(queue[t]).task].history) + 1)}]
    /\ queue' = [queue EXCEPT ![t] = Tail(@)]
    /\ pc' = [pc EXCEPT ![t] = "work"]
    /\ ev' = Quiet
    /\ UNCHANGED <<clock, objs, store, nalloc, now, lock>>

\* _execute_task_logic dropping a one-shot task from the store once it has run
FinishDropsOneShot(t, heap) ==
    /\ ev = Quiet
    /\ cur' = [cur EXCEPT ![t] = None]
    /\ store' = SelectSeq(store, LAMBDA e : ~(e.ref = Val(cur[t]).task /\ heap[e.ref].run_at # None))
    /\ objs' = Live(heap, store', queue, cur')
    /\ pc' = [pc EXCEPT ![t] = "exec"]
    /\ ev' = Quiet
    /\ UNCHANGED <<clock, nalloc, now, queue, made, lock>>

\* _execute_task_logic is through with its task: back to the loop of phase 2
Finish(t, heap) ==
    /\ ev = Quiet
    /\ cur' = [cur EXCEPT ![t] = None]
    /\ objs' = Live(heap, store, queue, cur')
    /\ pc' = [pc EXCEPT ![t] = "exec"]
    /\ ev' = Quiet
    /\ UNCHANGED <<clock, store, nalloc, now, queue, made, lock>>

\* the work function returns, and _execute_task_logic records the success
WorkReturns(t) ==
    /\ pc[t] = "work"
    /\ LET c == Val(cur[t])
       IN Finish(t, [objs EXCEPT ![c.task] = OnReturn(@, ResultOf(c.call), clock, c.run_time)])

\* the work function raises and nothing catches it: the exception leaves
\* tick() with the rest of the list not run
WorkRaisesUncaught(t) ==
    /\ ev = Quiet
    /\ pc[t] = "work"
    /\ cur' = [cur EXCEPT ![t] = None]
    /\ queue' = [queue EXCEPT ![t] = <<>>]
    /\ objs' = Live(objs, store, queue', cur')
    /\ pc' = [pc EXCEPT ![t] = "idle"]
    /\ now' = [now EXCEPT ![t] = 0]
    /\ made' = [made EXCEPT ![t] = {}]
    /\ ev' = Quiet
    /\ UNCHANGED <<clock, store, nalloc, lock>>

\* the work function raises, and _execute_task_logic records the failure
WorkRaises(t) ==
    /\ pc[t] = "work"
    /\ LET c == Val(cur[t])
       IN Finish(t, [objs EXCEPT ![c.task] = OnRaise(@, c.run_time)])

\* tick() returning after the first item of its list, the rest left behind
TickReturnsEarly(t) ==
    /\ ev = Quiet
    /\ pc[t] = "exec"
    /\ pc' = [pc EXCEPT ![t] = "idle"]
    /\ now' = [now EXCEPT ![t] = 0]
    /\ made' = [made EXCEPT ![t] = {}]
    /\ ev' = Quiet
    /\ UNCHANGED <<clock, objs, store, nalloc, queue, cur, lock>>

\* the loop of phase 2 is over: tick() returns
TickReturns(t) ==
    /\ ev = Quiet
    /\ pc[t] = "exec"
    /\ queue[t] = <<>>
    /\ pc' = [pc EXCEPT ![t] = "idle"]
    /\ now' = [now EXCEPT ![t] = 0]
    /\ made' = [made EXCEPT ![t] = {}]
    /\ ev' = Quiet
    /\ UNCHANGED <<clock, objs, store, nalloc, queue, cur, lock>>

\* tick() on thread t, the only thread that ticks
Tick(t) ==
    \/ Phase1(t)
    \/ Invoke(t)
    \/ WorkReturns(t)
    \/ WorkRaises(t)
    \/ TickReturns(t)

\* the tasks callers construct: B depends on A; A has no dependencies, or
\* depends on B
EverySch == [every |-> Some(EveryIn), at |-> None, run_at |-> None]
AtSch == [every |-> None, at |-> Some(AtIn), run_at |-> None]
RunAtSch == [every |-> None, at |-> None, run_at |-> Some(RunAtIn)]
NoneSch == [every |-> None, at |-> None, run_at |-> None]
RegIn ==
    { Task("A", s, NewWork, <<>>) : s \in Schedules }
        \cup { Task("B", s, NewWork, <<"A">>) : s \in {EverySch, RunAtSch} }
        \cup { Task("A", EverySch, NewWork, <<"B">>) }
\* update gives A other work and a dependency on B, or no valid schedule
UpdIn ==
    { Task("A", s, UpdWork, <<>>) : s \in Schedules \ {EverySch, AtSch, RunAtSch} }
        \cup { Task("A", EverySch, UpdWork, <<"B">>) }

\* add_task_dynamically is given a task with a new id, a task with no schedule
\* option, and, once B is stored, a task with an id in use
AddIn ==
    { Task("B", EverySch, NewWork, <<"A">>), Task("A", NoneSch, NewWork, <<>>) }

\* a caller of the registry, on any thread
Caller ==
    \/ \E task \in RegIn : Register(task)
    \/ \E task \in AddIn : AddTaskDynamically(task)
    \/ \E task \in UpdIn : Update(task)
    \/ \E id \in Ids : Delete(id)

\* the caller of a registry method goes on; the record of the call is dropped.
\* Nothing else happens while the record stands: it is no state of the program,
\* and dropping it changes nothing a thread reads.
CallerGoesOn ==
    /\ ev # Quiet
    /\ ev' = Quiet
    /\ UNCHANGED <<clock, objs, store, nalloc, tickVars>>

\* the scheduler's loop is the only thread that ticks
Next ==
    \/ AdvanceClock
    \/ Caller
    \/ Tick(Driver)
    \/ CallerGoesOn

Spec == Init /\ [][Next]_vars

\* ------------------------------------------------- several ticking threads
\* one statement of _execute_task_logic on the task it runs
Statement(t, from, to, task2) ==
    /\ ev = Quiet
    /\ pc[t] = from
    /\ objs' = [objs EXCEPT ![Val(cur[t]).task] = task2]
    /\ pc' = [pc EXCEPT ![t] = to]
    /\ ev' = Quiet
    /\ UNCHANGED <<clock, store, nalloc, now, queue, cur, made, lock>>

\* the work function returns: task.result = task.func(...)
FuncReturns(t) ==
    Statement(t, "work", "returned", StResult(objs[Val(cur[t]).task], ResultOf(Val(cur[t]).call)))

\* task.status = TaskStatus.SUCCESS
SetSuccess(t) ==
    Statement(t, "returned", "succeeded", StSuccess(objs[Val(cur[t]).task]))

\* task.last_success_at = datetime.now()
StampSuccess(t) ==
    Statement(t, "succeeded", "stamped", StStamp(objs[Val(cur[t]).task], clock))

\* task.error_message = None
ClearError(t) ==
    Statement(t, "stamped", "finally", StClear(objs[Val(cur[t]).task]))

\* the work function raises: task.status = TaskStatus.FAILED
FuncRaises(t) ==
    Statement(t, "work", "raised", StFailed(objs[Val(cur[t]).task]))

\* task.error_message = f"{type(exc).__name__}: {exc}"
SetError(t) ==
    Statement(t, "raised", "finally", StError(objs[Val(cur[t]).task]))

\* finally: task.history.append(...)
AppendHistory(t) ==
    /\ pc[t] = "finally"
    /\ LET c == Val(cur[t])
       IN Finish(t, [objs EXCEPT ![c.task] = StHistory(@, c.run_time)])

\* now = datetime.now(), a statement of its own when several threads tick:
\* another tick may stamp a task before this one gets the lock
TakeNow(t) ==
    /\ ev = Quiet
    /\ pc[t] = "idle"
    /\ now' = [now EXCEPT ![t] = clock]
    /\ pc' = [pc EXCEPT ![t] = "lock"]
    /\ ev' = Quiet
    /\ UNCHANGED <<clock, objs, store, nalloc, queue, cur, made, lock>>

\* with self._lock: ..., once the lock is free
Phase1Locked(t) ==
    /\ pc[t] = "lock"
    /\ LockBlock(t, now[t])

\* tick() on thread t, one of several that tick
TickOverlap(t) ==
    \/ TakeNow(t)
    \/ Phase1Locked(t)
    \/ Invoke(t)
    \/ FuncReturns(t)
    \/ SetSuccess(t)
    \/ StampSuccess(t)
    \/ ClearError(t)
    \/ FuncRaises(t)
    \/ SetError(t)
    \/ AppendHistory(t)
    \/ TickReturns(t)

\* the tasks registered when several threads tick: an interval task and a
\* one-shot task that depends on it
RegInOverlap == {Task("A", EverySch, NewWork, <<>>), Task("B", RunAtSch, NewWork, <<"A">>)}

AdvanceClockOverlap == Elapse(MaxTimeOverlap)

\* tick() is also called directly, alongside the scheduler's loop
NextOverlap ==
    \/ AdvanceClockOverlap
    \/ \E task \in RegInOverlap : Register(task)
    \/ \E t \in Tickers : TickOverlap(t)
    \/ CallerGoesOn

SpecOverlap == Init /\ [][NextOverlap]_vars

\* the scheduler's loop alone ticks, one statement of _execute_task_logic at a
\* time: what another thread can read of a task while its work ends
NextSteps ==
    \/ AdvanceClockOverlap
    \/ \E task \in RegInOverlap : Register(task)
    \/ TickOverlap(Driver)
    \/ CallerGoesOn

SpecSteps == Init /\ [][NextSteps]_vars

\* ------------------------------------- the store written without the lock
\* tick(), phase 1, while another thread deletes the key d from registry.store
\* directly, without the lock, between _deps_ready and the collection of the
\* results for the k-th task
VanishInPhase1(t, k, d) ==
    /\ ev = Quiet
    /\ lock = None
    /\ pc[t] = "idle"
    /\ k \in DOMAIN store
    /\ d \in StoreKeys(store)
    /\ LET r == Phase1LoopVanish(1, clock, store, objs, <<>>, k, d)
       IN /\ queue' = [queue EXCEPT ![t] = r.queue]
          /\ store' = StoreDel(store, d)
          /\ objs' = Live(r.heap, store', queue', cur)
    /\ now' = [now EXCEPT ![t] = clock]
    /\ pc' = [pc EXCEPT ![t] = "exec"]
    /\ made' = [made EXCEPT ![t] = {}]
    /\ lock' = None
    /\ ev' = [op |-> "vanish", id |-> d, during |-> store[k].ref]
    /\ UNCHANGED <<clock, nalloc, cur>>

\* the tasks registered then: an interval task and one that depends on it
RegInVanish == {Task("A", EverySch, NewWork, <<>>), Task("B", EverySch, NewWork, <<"A">>)}

\* the scheduler's loop ticks, callers register, and a thread deletes keys of
\* registry.store without taking the lock
NextVanish ==
    \/ AdvanceClock
    \/ \E task \in RegInVanish : Register(task)
    \/ Tick(Driver)
    \/ \E k \in 1..MaxObjs : \E d \in Ids : VanishInPhase1(Driver, k, d)
    \/ CallerGoesOn

SpecVanish == Init /\ [][NextVanish]_vars

\* -------------------------------------------------- the construction of a Task
\* allowed_keys of validate_every_keys
AllowedUnits ==
    {"days", "seconds", "microseconds", "milliseconds", "minutes", "hours", "weeks"}

\* the unit names and the every mappings a caller passes to Task(...): any
\* mapping of some of these names, one of them misspelt, to small counts
UnitsIn == {"seconds", "minutes", "weeks", "minutesss"}
EveryMaps == UNION { [S -> -1..MaxCount] : S \in SUBSET UnitsIn }

\* Task.validate_every_keys(v), v a mapping with integer counts: what the
\* construction of the Task ends with
ValidateEvery(v) ==
    IF \E k \in DOMAIN v : k \notin AllowedUnits
    THEN "ValidationError: invalid key"
    ELSE IF DOMAIN v = {} THEN "ValidationError: empty"
    ELSE "constructed"

\* Task(every=v, func=f): the validators run, the task is made or not
Construct(v) ==
    /\ ev = Quiet
    /\ ev' = [op |-> "Task", every |-> v, out |-> ValidateEvery(v)]
    /\ UNCHANGED <<clock, objs, store, nalloc, tickVars>>

\* registry.register(Task(id="A", every=v, func=f)): register is reached only
\* with a task that was constructed
ConstructAndRegister(v) ==
    /\ ValidateEvery(v) = "constructed"
    /\ Register(Task("A", [every |-> Some(v), at |-> None, run_at |-> None], NewWork, <<>>))

\* callers construct tasks with an every mapping, and register them
NextConstruct ==
    \/ \E v \in EveryMaps : Construct(v)
    \/ \E v \in EveryMaps : ConstructAndRegister(v)
    \/ CallerGoesOn

SpecConstruct == Init /\ [][NextConstruct]_vars

\* ------------------------------------------------------- start_scheduler
\* the module's registry before start_scheduler is called: no thread runs
\* loop() yet
InitStart ==
    /\ clock = 0
    /\ objs = <<>>
    /\ store = <<>>
    /\ nalloc = 0
    /\ pc = [t \in Tickers |-> "off"]
    /\ now = [t \in Tickers |-> 0]
    /\ queue = [t \in Tickers |-> <<>>]
    /\ cur = [t \in Tickers |-> None]
    /\ made = [t \in Tickers |-> {}]
    /\ ev = Quiet
    /\ lock = None

\* start_scheduler(interval, blocking), called once.  blocking: loop() runs on
\* the calling thread and the call does not return.  Otherwise a daemon thread
\* is started on loop(), and the call returns what the function returns:
\* nothing
StartScheduler(blocking) ==
    /\ ev = Quiet
    /\ \A t \in Tickers : pc[t] = "off"
    /\ IF blocking
       THEN /\ pc' = [pc EXCEPT ![Direct] = "idle"]
            /\ ev' = [op |-> "start_scheduler", blocking |-> TRUE, out |-> "in loop",
                      worker |-> Direct, daemon |-> FALSE, ret |-> None]
       ELSE /\ pc' = [pc EXCEPT ![Driver] = "idle"]
            /\ ev' = [op |-> "start_scheduler", blocking |-> FALSE, out |-> "returned",
                      worker |-> Driver, daemon |-> TRUE, ret |-> None]
    /\ UNCHANGED <<clock, objs, store, nalloc, now, queue, cur, made, lock>>

\* the program: tasks are registered, start_scheduler is called, and the
\* thread that runs loop() ticks again and again, time passing in between
NextStart ==
    \/ AdvanceClock
    \/ \E task \in RegInOverlap : Register(task)
    \/ \E blocking \in BOOLEAN : StartScheduler(blocking)
    \/ \E t \in Tickers : Tick(t)
    \/ CallerGoesOn

SpecStart == InitStart /\ [][NextStart]_vars

\* ------------------------------------------- the lock, section by section
\* a thread that calls register, update or delete while others tick
CallerThread == "caller"

\* with self._lock, on the way out: the lock is released, by an exception
\* (raised) as by the end of the block or a return
WithExitUnlessRaised(holder, raised) == IF raised THEN Some(holder) ELSE None

WithExit(holder, raised) == None

\* with self._lock, on the way in, for register(task) or update(task): the
\* caller gets the lock once it is free
Acquire(op, task) ==
    /\ ev = Quiet
    /\ lock = None
    /\ op = "register" => nalloc < MaxObjs
    /\ lock' = Some(CallerThread)
    /\ ev' = CallOf(op, task, "in lock", None)
    /\ UNCHANGED <<clock, objs, store, nalloc, pc, now, queue, cur, made>>

\* with self._lock, on the way in, for delete(task_id)
AcquireDelete(id) ==
    /\ ev = Quiet
    /\ lock = None
    /\ lock' = Some(CallerThread)
    /\ ev' = [op |-> "delete", id |-> id, out |-> "in lock", ret |-> None]
    /\ UNCHANGED <<clock, objs, store, nalloc, pc, now, queue, cur, made>>

\* register, the block under the lock
RegisterInLock ==
    /\ ev.op = "register"
    /\ ev.out = "in lock"
    /\ LET task == ev.task
       IN IF ScheduleCount(task) # 1
          THEN /\ ev' = CallOf("register", task, "ValueError: schedule", None)
               /\ lock' = WithExit(CallerThread, TRUE)
               /\ UNCHANGED <<objs, store, nalloc>>
          ELSE IF task.id \in StoreKeys(store)
          THEN /\ ev' = CallOf("register", task, "ValueError: duplicate", None)
               /\ lock' = WithExit(CallerThread, TRUE)
               /\ UNCHANGED <<objs, store, nalloc>>
          ELSE /\ objs' = [r \in DOMAIN objs \cup {nalloc + 1} |->
                               IF r = nalloc + 1 THEN task ELSE objs[r]]
               /\ store' = Append(store, [key |-> task.id, ref |-> nalloc + 1])
               /\ nalloc' = nalloc + 1
               /\ ev' = CallOf("register", task, "returned", Some(nalloc + 1))
               /\ lock' = WithExit(CallerThread, FALSE)
    /\ UNCHANGED <<clock, pc, now, queue, cur, made>>

\* update, the block under the lock
UpdateInLock ==
    /\ ev.op = "update"
    /\ ev.out = "in lock"
    /\ LET task == ev.task
       IN IF ScheduleCount(task) # 1
          THEN /\ ev' = CallOf("update", task, "ValueError: schedule", None)
               /\ lock' = WithExit(CallerThread, TRUE)
               /\ UNCHANGED <<objs, store>>
          ELSE IF task.id \notin StoreKeys(store)
          THEN /\ ev' = CallOf("update", task, "KeyError", None)
               /\ lock' = WithExit(CallerThread, TRUE)
               /\ UNCHANGED <<objs, store>>
          ELSE /\ objs' = [objs EXCEPT ![StoreRef(store, task.id)] = TaskUpdate(@, task)]
               /\ ev' = CallOf("update", task, "returned", None)
               /\ lock' = WithExit(CallerThread, FALSE)
               /\ UNCHANGED store
    /\ UNCHANGED <<clock, nalloc, pc, now, queue, cur, made>>

\* delete, the block under the lock
DeleteInLock ==
    /\ ev.op = "delete"
    /\ ev.out = "in lock"
    /\ store' = IF ev.id \in StoreKeys(store) THEN StoreDel(store, ev.id) ELSE store
    /\ objs' = Live(objs, store', queue, cur)
    /\ ev' = [op |-> "delete", id |-> ev.id, out |-> "returned", ret |-> None]
    /\ lock' = WithExit(CallerThread, FALSE)
    /\ UNCHANGED <<clock, nalloc, pc, now, queue, cur, made>>

\* the caller goes on after a call that has ended
CallerLeaves ==
    /\ ev # Quiet
    /\ ev.out # "in lock"
    /\ CallerGoesOn

\* tick, with self._lock on the way in: the thread has read now and gets the
\* lock once it is free
TickAcquire(t) ==
    /\ pc[t] = "lock"
    /\ lock = None
    /\ lock' = Some(t)
    /\ pc' = [pc EXCEPT ![t] = "locked"]
    /\ UNCHANGED <<clock, objs, store, nalloc, now, queue, cur, made, ev>>

\* tick, the block under the lock, and the way out of it
TickInLock(t) ==
    /\ pc[t] = "locked"
    /\ LET r == Phase1Loop(1, now[t], store, objs, <<>>)
       IN /\ objs' = r.heap
          /\ queue' = [queue EXCEPT ![t] = r.queue]
    /\ pc' = [pc EXCEPT ![t] = "exec"]
    /\ made' = [made EXCEPT ![t] = {}]
    /\ lock' = WithExit(t, FALSE)
    /\ UNCHANGED <<clock, store, nalloc, now, cur, ev>>

\* tick() on thread t, the lock taken and released in steps of their own
TickLock(t) ==
    \/ TakeNow(t)
    \/ TickAcquire(t)
    \/ TickInLock(t)
    \/ Invoke(t)
    \/ WorkReturns(t)
    \/ WorkRaises(t)
    \/ TickReturns(t)

\* the tasks passed to register and update while threads contend for the
\* lock: valid ones, one without a schedule option, and ids in use or unknown
RegInLock == RegInOverlap \cup {Task("B", NoneSch, NewWork, <<>>)}

\* two threads tick and a third one calls register, update and delete, all
\* within one second: the lock reads no clock
NextLock ==
    \/ \E task \in RegInLock : Acquire("register", task)
    \/ \E task \in UpdIn : Acquire("update", task)
    \/ \E id \in Ids : AcquireDelete(id)
    \/ RegisterInLock
    \/ UpdateInLock
    \/ DeleteInLock
    \/ CallerLeaves
    \/ \E t \in Tickers : TickLock(t)

SpecLock == Init /\ [][NextLock]_vars

\* ================================================================== claims
\* thread t goes through the with self._lock block of tick in this step
Selecting(t) == pc[t] \in {"idle", "lock"} /\ pc'[t] = "exec"

\* thread t calls the work function of a task in this step
Invoking(t) == pc[t] = "exec" /\ pc'[t] = "work"

\* the references of the items in a tick's list
Queued(q) == {q[i].task : i \in DOMAIN q}

\* some dependency of the task is absent from the store or has never succeeded
Blocked(task) ==
    \E i \in DOMAIN task.depends_on :
        \/ \A j \in DOMAIN store : store[j].key # task.depends_on[i]
        \/ \E j \in DOMAIN store : /\ store[j].key = task.depends_on[i]
                                    /\ objs[store[j].ref].last_success_at = None

\* a tick's list is filled by its phase 1 only, loses an item only to the call
\* of that item's work function, and is empty when tick returns
Phase2RunsTheList(t) ==
    /\ queue'[t] # queue[t] =>
            \/ Selecting(t)
            \/ /\ Invoking(t)
               /\ queue[t] # <<>>
               /\ queue'[t] = Tail(queue[t])
               /\ Val(cur'[t]).task = Head(queue[t]).task
    /\ Invoking(t) => queue[t] # <<>> /\ Val(cur'[t]).task = Head(queue[t]).task
    /\ (pc[t] = "exec" /\ pc'[t] = "idle") => queue[t] = <<>>

\* ---------------------------------------------------------------------- C1
ExactlyOneSchedule(task) ==
    Cardinality({k \in {"every", "at", "run_at"} : task[k] # None}) = 1

\* C1: register(task) returns iff exactly one of every/at/run_at is set and the
\* id is not in the store; it then stores the task under task.id, after the
\* tasks stored before, and returns that task; otherwise it raises and the store
\* and every task are as before the call.
C1_RegisterContract ==
    [][ (ev = Quiet /\ ev'.op = "register") =>
          LET task == ev'.task
              ok == ExactlyOneSchedule(task) /\ task.id \notin StoreKeys(store)
          IN /\ (ev'.out = "returned") <=> ok
             /\ ok => /\ ev'.ret # None
                      /\ Val(ev'.ret) \notin DOMAIN objs
                      /\ DOMAIN objs' = DOMAIN objs \cup {Val(ev'.ret)}
                      /\ objs'[Val(ev'.ret)] = task
                      /\ \A r \in DOMAIN objs : objs'[r] = objs[r]
                      /\ store' = Append(store, [key |-> task.id, ref |-> Val(ev'.ret)])
             /\ ~ok => /\ ev'.out \in {"ValueError: schedule", "ValueError: duplicate"}
                       /\ ev'.ret = None
                       /\ store' = store
                       /\ objs' = objs ]_vars

\* a register of an id already stored has just raised; the stored task, which
\* has run, is still there
C1_Witness ==
    /\ ev.op = "register"
    /\ ev.out = "ValueError: duplicate"
    /\ \E i \in DOMAIN store : /\ store[i].key = ev.id
                                /\ objs[store[i].ref].history # <<>>
                                /\ objs[store[i].ref] # ev.task

\* ---------------------------------------------------------------------- C2
\* C2 as stated: the work of a task is never called while one of its
\* dependencies is absent from the store or has never succeeded, and a phase 1
\* that finds a task blocked leaves it Pending, last_run_at and history unchanged.
C2_AsStated ==
    [][ \A t \in Tickers :
          /\ Invoking(t) => ~Blocked(objs[Val(cur'[t]).task])
          /\ Selecting(t) =>
                \A i \in DOMAIN store :
                    LET r == store[i].ref
                    IN Blocked(objs[r]) =>
                          /\ objs'[r].status = PENDING
                          /\ objs'[r].last_run_at = objs[r].last_run_at
                          /\ objs'[r].history = objs[r].history ]_vars

\* C2, amended: a phase 1 that finds a dependency of T absent from the store or
\* never succeeded does not select T (T is not queued, so its work is not
\* called by that tick) and leaves T's status, last_run_at and history as they
\* were; phase 2 calls the work of the queued tasks only.
C2_BlockedNotSelected ==
    [][ \A t \in Tickers :
          /\ Phase2RunsTheList(t)
          /\ Selecting(t) =>
                \A i \in DOMAIN store :
                    LET r == store[i].ref
                    IN Blocked(objs[r]) =>
                          /\ r \notin Queued(queue'[t])
                          /\ objs'[r].status = objs[r].status
                          /\ objs'[r].last_run_at = objs[r].last_run_at
                          /\ objs'[r].history = objs[r].history ]_vars

\* phase 1 has just passed over a task that is due and has run before, and
\* whose dependency is gone from the store
C2_Witness ==
    \E t \in Tickers :
        /\ pc[t] = "exec"
        /\ \E i \in DOMAIN store :
              LET T == objs[store[i].ref]
              IN /\ T.depends_on # <<>>
                 /\ T.depends_on[1] \notin StoreKeys(store)
                 /\ T.status = SUCCESS
                 /\ T.every # None
                 /\ now[t] - Val(T.last_run_at) >= Timedelta(Val(T.every))
                 /\ store[i].ref \notin Queued(queue[t])

\* ---------------------------------------------------------------------- C3
\* C3: a phase 1 that finds T not Running, T's time condition true at the
\* tick's now and every dependency of T in the store with last_success_at set
\* selects T: it marks T Running, stamps last_run_at and queues T, and phase 2
\* calls the work of every queued task before tick returns.
C3_ReadySelected ==
    [][ \A t \in Tickers :
          /\ Phase2RunsTheList(t)
          /\ Selecting(t) =>
                \A i \in DOMAIN store :
                    LET r == store[i].ref
                    IN ( /\ objs[r].status # RUNNING
                         /\ ShouldRun(objs[r], now'[t])
                         /\ ~Blocked(objs[r]) ) =>
                          /\ objs'[r].status = RUNNING
                          /\ objs'[r].last_run_at = Some(now'[t])
                          /\ \E k \in DOMAIN queue'[t] :
                                /\ queue'[t][k].task = r
                                /\ queue'[t][k].run_time = now'[t] ]_vars

\* the work of a dependent is being called, in the tick that selected it, its
\* dependency having succeeded in an earlier tick
C3_Witness ==
    \E t \in Tickers :
        /\ pc[t] = "work"
        /\ LET c == Val(cur[t])
               T == objs[c.task]
           IN /\ T.depends_on # <<>>
              /\ T.status = RUNNING
              /\ T.last_run_at = Some(now[t])
              /\ c.run_time = now[t]
              /\ ~Blocked(T)
              /\ \A k \in DOMAIN c.dep_kwargs : c.dep_kwargs[k] # None

\* ---------------------------------------------------------------------- C4
\* C4: a phase 1 selects a run_at task iff its last_run_at is null, the tick's
\* now is at or past run_at and its dependencies are ready; selecting it sets
\* last_run_at, and the last_run_at of a task never goes back to null, whatever
\* the outcome of the attempt: the task is selected once and by no later tick.
C4_RunAtOnce ==
    [][ /\ \A r \in DOMAIN objs \cap DOMAIN objs' :
              objs[r].last_run_at # None => objs'[r].last_run_at # None
        /\ \A t \in Tickers : Selecting(t) =>
              \A i \in DOMAIN store :
                  LET r == store[i].ref
                      T == objs[r]
                  IN T.run_at # None =>
                        /\ r \in Queued(queue'[t]) <=>
                              ( /\ T.last_run_at = None
                                /\ now'[t] >= Val(T.run_at)
                                /\ ~Blocked(T) )
                        /\ r \in Queued(queue'[t]) => objs'[r].last_run_at = Some(now'[t]) ]_vars

\* a later phase 1 has just passed over a run_at task whose one attempt failed
C4_Witness ==
    \E t \in Tickers :
        /\ pc[t] = "exec"
        /\ \E i \in DOMAIN store :
              LET T == objs[store[i].ref]
              IN /\ T.run_at # None
                 /\ T.status = FAILED
                 /\ Len(T.history) = 1
                 /\ ~Blocked(T)
                 /\ Val(T.run_at) <= Val(T.last_run_at)
                 /\ Val(T.last_run_at) < now[t]
                 /\ store[i].ref \notin Queued(queue[t])

\* ---------------------------------------------------------------------- C5
\* C5: a phase 1 selects an every task that is not Running and whose
\* dependencies are ready iff its last_run_at is null or now - last_run_at is at
\* least the interval, equality included, whatever the status the last attempt
\* left.
C5_EveryInterval ==
    [][ \A t \in Tickers : Selecting(t) =>
          \A i \in DOMAIN store :
              LET r == store[i].ref
                  T == objs[r]
              IN ( /\ T.every # None /\ T.at = None /\ T.run_at = None
                   /\ T.status # RUNNING
                   /\ ~Blocked(T) ) =>
                    ( r \in Queued(queue'[t]) <=>
                        \/ T.last_run_at = None
                        \/ now'[t] - Val(T.last_run_at) >= Timedelta(Val(T.every)) ) ]_vars

\* an every task failed, was not selected by a tick before the interval had
\* passed, and was attempted again exactly one interval after the failure
C5_Witness ==
    \E r \in DOMAIN objs :
        LET T == objs[r]
        IN /\ T.every # None /\ T.at = None
           /\ Len(T.history) >= 2
           /\ T.history[1].status = FAILED
           /\ T.history[2].run_at - T.history[1].run_at = Timedelta(Val(T.every))

\* ---------------------------------------------------------------------- C6
\* C6: a phase 1 selects an at task that is not Running and whose dependencies
\* are ready iff the tick's now is at or past HH:MM of now's day and last_run_at
\* is null or falls on another day than now, whatever the status the last
\* attempt left: at most one attempt a day, and eligible again the next day.
C6_AtOncePerDay ==
    [][ \A t \in Tickers : Selecting(t) =>
          \A i \in DOMAIN store :
              LET r == store[i].ref
                  T == objs[r]
                  n == now'[t]
              IN ( /\ T.at # None /\ T.run_at = None
                   /\ T.status # RUNNING
                   /\ ~Blocked(T) ) =>
                    ( r \in Queued(queue'[t]) <=>
                        /\ n % DayLen >= Val(T.at)[1] * HourLen + Val(T.at)[2] * MinLen
                        /\ \/ T.last_run_at = None
                           \/ Val(T.last_run_at) \div DayLen # n \div DayLen ) ]_vars

\* an at task failed one day and was attempted again the next; a further tick
\* of that next day has just passed over it
C6_Witness ==
    \E t \in Tickers :
        /\ pc[t] = "exec"
        /\ \E i \in DOMAIN store :
              LET T == objs[store[i].ref]
              IN /\ T.at # None
                 /\ Len(T.history) = 2
                 /\ T.history[1].status = FAILED
                 /\ T.history[2].run_at \div DayLen = 1 + T.history[1].run_at \div DayLen
                 /\ T.status # RUNNING
                 /\ now[t] \div DayLen = Val(T.last_run_at) \div DayLen
                 /\ store[i].ref \notin Queued(queue[t])

\* ---------------------------------------------------------------------- C7
\* C7: a phase 1 that finds a task Running skips it: no field of the task
\* changes and the task is not queued, so this tick does not call its work,
\* even when its time condition holds and its dependencies are ready.
C7_RunningSkipped ==
    [][ \A t \in Tickers :
          /\ Phase2RunsTheList(t)
          /\ Selecting(t) =>
                \A i \in DOMAIN store :
                    LET r == store[i].ref
                    IN objs[r].status = RUNNING =>
                          /\ objs'[r] = objs[r]
                          /\ r \notin Queued(queue'[t]) ]_vars

\* a tick has passed over a task that another tick is still running, though
\* the task is due again at this tick's now and its dependencies are ready
C7_Witness ==
    \E t \in Tickers : \E u \in Tickers \ {t} :
        /\ pc[t] = "exec"
        /\ pc[u] = "work"
        /\ LET r == Val(cur[u]).task
               T == objs[r]
           IN /\ r \in StoreRefs(store)
              /\ T.status = RUNNING
              /\ T.last_run_at = Some(Val(cur[u]).run_time)
              /\ T.every # None
              /\ now[t] - Val(T.last_run_at) >= Timedelta(Val(T.every))
              /\ ~Blocked(T)
              /\ r \notin Queued(queue[t])

\* ---------------------------------------------------------------------- C8
\* thread t leaves the work function it called, by a return or by an exception
Leaving(t) == pc[t] = "work" /\ pc'[t] # "work"

\* C8: each call of a task's work by a tick appends one record to the task's
\* history, and nothing else appends to it: the record's run_at is the tick's
\* now, which phase 1 stamped as last_run_at; its status is Success with the
\* repr of the value returned and no error if the work returned, Failed with
\* the error text and no result if it raised.
C8_OneRecordPerCall ==
    [][ /\ \A r \in DOMAIN objs \cap DOMAIN objs' :
              objs'[r].history # objs[r].history =>
                  \E t \in Tickers : Leaving(t) /\ Val(cur[t]).task = r
        /\ \A t \in Tickers :
              (Leaving(t) /\ Val(cur[t]).task \in DOMAIN objs') =>
                  LET c == Val(cur[t])
                      old == objs[c.task]
                      new == objs'[c.task]
                      rec == new.history[Len(new.history)]
                      returned == new.result = Some(c.call)
                  IN /\ Len(new.history) = Len(old.history) + 1
                     /\ \A k \in DOMAIN old.history : new.history[k] = old.history[k]
                     /\ rec.run_at = now[t]
                     /\ Some(rec.run_at) = old.last_run_at
                     /\ new.last_run_at = old.last_run_at
                     /\ rec.status = new.status
                     /\ returned => /\ rec.status = SUCCESS
                                    /\ rec.result = Some(<<"repr", Some(c.call)>>)
                                    /\ rec.error = None
                     /\ ~returned => /\ rec.status = FAILED
                                     /\ rec.result = None
                                     /\ rec.error # None
                                     /\ rec.error = new.error_message ]_vars

\* a task that succeeded and then failed: two records, the second without a
\* result although the task still holds the result of the first call
C8_Witness ==
    \E r \in DOMAIN objs :
        LET T == objs[r]
        IN /\ Len(T.history) = 2
           /\ T.history[1].status = SUCCESS /\ T.history[1].result # None
           /\ T.history[2].status = FAILED /\ T.history[2].result = None
           /\ T.history[2].error # None
           /\ T.result # None
           /\ T.history[1].run_at < T.history[2].run_at

\* ---------------------------------------------------------------------- C9
\* C9: when the work of a task raises, the task becomes Failed with the error
\* text and one more history record, Failed; tick goes on with its list as it
\* was, and the store and every other task are as they were, which is what a
\* return of that work leaves of them too.
C9_FailureIsolated ==
    [][ \A t \in Tickers :
          /\ Phase2RunsTheList(t)
          /\ Leaving(t) =>
                LET c == Val(cur[t])
                IN /\ pc'[t] = "exec"
                   /\ queue'[t] = queue[t]
                   /\ store' = store
                   /\ \A r \in DOMAIN objs \ {c.task} :
                         r \in DOMAIN objs' /\ objs'[r] = objs[r]
                   /\ (c.task \in DOMAIN objs' /\ objs'[c.task].result # Some(c.call)) =>
                         LET new == objs'[c.task]
                         IN /\ new.status = FAILED
                            /\ new.error_message # None
                            /\ Len(new.history) = Len(objs[c.task].history) + 1
                            /\ new.history[Len(new.history)].status = FAILED
                            /\ new.history[Len(new.history)].error = new.error_message ]_vars

\* the work of a task is being called in a tick in which the work of another
\* task has raised
C9_Witness ==
    \E t \in Tickers :
        /\ pc[t] = "work"
        /\ \E call \in made[t] :
              /\ call # Val(cur[t]).call
              /\ call[1] \in DOMAIN objs
              /\ objs[call[1]].status = FAILED
              /\ Len(objs[call[1]].history) = call[2]
              /\ objs[call[1]].history[call[2]].run_at = now[t]
              /\ objs[call[1]].error_message = Some(BoomError)

\* --------------------------------------------------------------------- C10
\* C10: no dependency value a tick hands to a work function, or holds for a
\* task still queued, was returned by a call this tick has made: every such
\* value was read in phase 1, before the first call of the tick.
C10_DepsFromEarlierTicks ==
    \A t \in Tickers :
        /\ \A i \in DOMAIN queue[t] : \A k \in DOMAIN queue[t][i].dep_kwargs :
              \A call \in made[t] : queue[t][i].dep_kwargs[k] # Some(call)
        /\ cur[t] # None =>
              LET c == Val(cur[t])
              IN /\ \A k \in DOMAIN c.dep_kwargs :
                        /\ \A call \in made[t] : c.dep_kwargs[k] # Some(call)
                        /\ k \in DOMAIN c.kwargs
                        /\ c.kwargs[k] = c.dep_kwargs[k]

\* the work of a dependent is being called with the result its dependency had
\* before this tick, though the dependency has run again earlier in this tick
C10_Witness ==
    \E t \in Tickers :
        /\ pc[t] = "work"
        /\ LET c == Val(cur[t])
               T == objs[c.task]
           IN /\ T.depends_on # <<>>
              /\ T.depends_on[1] \in StoreKeys(store)
              /\ ("dep_" \o T.depends_on[1]) \in DOMAIN c.kwargs
              /\ LET d == StoreRef(store, T.depends_on[1])
                     v == c.kwargs["dep_" \o T.depends_on[1]]
                 IN /\ v # None
                    /\ Val(v)[1] = d
                    /\ \E call \in made[t] : call[1] = d /\ call[2] > Val(v)[2]
                    /\ objs[d].result # v

\* --------------------------------------------------------------------- C11
\* the result recorded by the last Success in a history, None if there is none
LastSuccessResult(h) ==
    LET S == {i \in DOMAIN h : h[i].status = SUCCESS}
    IN IF S = {} THEN None ELSE h[CHOOSE i \in S : \A j \in S : j <= i].result

\* C11 as stated: when the work of a task is called, it is called with the
\* task's args and with the task's kwargs plus, for each id in its depends_on,
\* one argument dep_<id> whose value is the result of that dependency's most
\* recent successful run.
C11_AsStated ==
    [][ \A t \in Tickers :
          Invoking(t) =>
              LET c == Val(cur'[t])
                  T == objs[c.task]
                  deps == {"dep_" \o T.depends_on[i] : i \in DOMAIN T.depends_on}
              IN /\ c.args = T.args
                 /\ DOMAIN c.kwargs = DOMAIN T.kwargs \cup deps
                 /\ \A i \in DOMAIN T.depends_on : \A j \in DOMAIN store :
                        store[j].key = T.depends_on[i] =>
                            Some(<<"repr", c.kwargs["dep_" \o T.depends_on[i]]>>)
                                = LastSuccessResult(objs[store[j].ref].history) ]_vars

\* C11, amended: phase 1 queues a task with one value per id in its depends_on,
\* under the key dep_<id>, the value being the result of the dependency's last
\* successful run at that moment, before any work of the tick; phase 2 calls
\* the task's func with the task's args and with the task's kwargs plus these
\* dep_ values, and nothing else.
C11_DepKwargsInjected ==
    [][ \A t \in Tickers :
          /\ Selecting(t) =>
                \A k \in DOMAIN queue'[t] :
                    LET item == queue'[t][k]
                        T == objs[item.task]
                    IN /\ DOMAIN item.dep_kwargs =
                              {"dep_" \o T.depends_on[i] : i \in DOMAIN T.depends_on}
                       /\ \A i \in DOMAIN T.depends_on :
                              \E j \in DOMAIN store :
                                  /\ store[j].key = T.depends_on[i]
                                  /\ Some(<<"repr", item.dep_kwargs["dep_" \o T.depends_on[i]]>>)
                                        = LastSuccessResult(objs[store[j].ref].history)
          /\ Invoking(t) =>
                LET item == Head(queue[t])
                    T == objs[item.task]
                    c == Val(cur'[t])
                IN /\ c.func = T.func
                   /\ c.args = T.args
                   /\ DOMAIN c.kwargs = DOMAIN T.kwargs \cup DOMAIN item.dep_kwargs
                   /\ \A k \in DOMAIN item.dep_kwargs : c.kwargs[k] = item.dep_kwargs[k]
                   /\ \A k \in DOMAIN T.kwargs \ DOMAIN item.dep_kwargs :
                          c.kwargs[k] = T.kwargs[k] ]_vars

\* the work of a dependent is being called with its own arguments and, as
\* dep_A, the result of the last success of A, which has failed since
C11_Witness ==
    \E t \in Tickers :
        /\ pc[t] = "work"
        /\ LET c == Val(cur[t])
               T == objs[c.task]
           IN /\ T.depends_on = <<"A">>
              /\ c.args = <<1>>
              /\ DOMAIN c.kwargs = {"b", "dep_A"}
              /\ c.kwargs["b"] = 2
              /\ "A" \in StoreKeys(store)
              /\ LET D == objs[StoreRef(store, "A")]
                 IN /\ D.status = FAILED
                    /\ Len(D.history) >= 2
                    /\ c.kwargs["dep_A"] = D.result
                    /\ D.result # None

\* --------------------------------------------------------------------- C12
\* a task that has never been attempted: as Task(...) constructs it
Fresh(task) ==
    /\ task.status = PENDING
    /\ task.last_run_at = None
    /\ task.last_success_at = None
    /\ task.history = <<>>

\* the stored tasks at x and y depend on each other, and on nothing else
Cycle(x, y) ==
    /\ x # y
    /\ objs[x].depends_on = <<objs[y].id>>
    /\ objs[y].depends_on = <<objs[x].id>>

\* C12: while two stored tasks that have never been attempted depend on each
\* other, no phase 1 selects either, no work of either is called and neither
\* changes: both stay Pending with null last_run_at, null last_success_at and
\* empty history, whatever the times of the ticks.
C12_CycleNeverRuns ==
    [][ \A i, j \in DOMAIN store :
          LET x == store[i].ref
              y == store[j].ref
          IN (Cycle(x, y) /\ Fresh(objs[x]) /\ Fresh(objs[y])) =>
                /\ \A t \in Tickers :
                      /\ Selecting(t) => x \notin Queued(queue'[t])
                      /\ Invoking(t) => Val(cur'[t]).task # x
                      /\ x \notin Queued(queue[t])
                      /\ cur[t] # None => Val(cur[t]).task # x
                /\ x \in DOMAIN objs' => Fresh(objs'[x]) ]_vars

\* a tick at a later time has just passed over two interval tasks that depend
\* on each other and have never been attempted, though both are due
C12_Witness ==
    \E t \in Tickers :
        /\ pc[t] = "exec"
        /\ now[t] > 0
        /\ queue[t] = <<>>
        /\ \E i, j \in DOMAIN store :
              LET x == store[i].ref
                  y == store[j].ref
              IN /\ Cycle(x, y)
                 /\ Fresh(objs[x]) /\ Fresh(objs[y])
                 /\ objs[x].every # None /\ objs[y].every # None

\* --------------------------------------------------------------------- C13
\* every record of the history is a failure
AllFailed(h) == \A i \in DOMAIN h : h[i].status = FAILED

\* an interval task without dependencies that has never succeeded
NeverSucceeded(task) ==
    /\ task.every # None /\ task.at = None /\ task.run_at = None
    /\ task.depends_on = <<>>
    /\ task.last_success_at = None
    /\ AllFailed(task.history)

\* C13: an interval task without dependencies whose every attempt so far has
\* failed is selected by each tick that comes a full interval (or more) after
\* its last attempt, and by the first tick; each raise of its work leaves it
\* Failed with one more record, all records Failed, and last_success_at
\* null; no other step adds a record.
C13_FailingEveryRetried ==
    [][ \A i \in DOMAIN store :
          LET x == store[i].ref
              T == objs[x]
          IN NeverSucceeded(T) =>
                /\ \A t \in Tickers :
                      /\ ( /\ Selecting(t)
                           /\ T.status # RUNNING
                           /\ \/ T.last_run_at = None
                              \/ now'[t] - Val(T.last_run_at) >= Timedelta(Val(T.every)) )
                         => /\ x \in Queued(queue'[t])
                            /\ objs'[x].last_run_at = Some(now'[t])
                      /\ ( /\ Leaving(t)
                           /\ Val(cur[t]).task = x
                           /\ objs'[x].status = FAILED )
                         => /\ Len(objs'[x].history) = Len(T.history) + 1
                            /\ AllFailed(objs'[x].history)
                            /\ objs'[x].history[Len(T.history) + 1].run_at = Val(T.last_run_at)
                            /\ objs'[x].last_success_at = None
                /\ ( /\ x \in DOMAIN objs'
                     /\ ~ \E t \in Tickers : Leaving(t) /\ Val(cur[t]).task = x )
                   => objs'[x].history = T.history ]_vars

\* the work of an interval task has raised at two ticks exactly one interval
\* apart: Failed, two records both Failed, never a success
C13_Witness ==
    \E i \in DOMAIN store :
        LET T == objs[store[i].ref]
        IN /\ NeverSucceeded(T)
           /\ T.status = FAILED
           /\ Len(T.history) = 2
           /\ T.history[2].run_at - T.history[1].run_at = Timedelta(Val(T.every))
           /\ T.last_run_at = Some(T.history[2].run_at)
           /\ T.error_message = Some(BoomError)

\* --------------------------------------------------------------------- C14
\* C14: in every reachable state each stored task has exactly one of every,
\* at and run_at set and is stored under its own id, and no id is stored
\* twice.
C14_StoreWellFormed ==
    /\ \A i \in DOMAIN store :
          /\ store[i].ref \in DOMAIN objs
          /\ ExactlyOneSchedule(objs[store[i].ref])
          /\ objs[store[i].ref].id = store[i].key
    /\ \A i, j \in DOMAIN store : store[i].key = store[j].key => i = j

\* an update with no valid schedule has just been refused for a stored task
\* that has run, a second task being stored
C14_Witness ==
    /\ ev.op = "update"
    /\ ev.out = "ValueError: schedule"
    /\ ~ExactlyOneSchedule(ev.task)
    /\ ev.id \in StoreKeys(store)
    /\ Len(store) = 2
    /\ objs[StoreRef(store, ev.id)].history # <<>>

\* --------------------------------------------------------------------- C15
\* sequence p is a prefix of sequence h
IsPrefix(p, h) ==
    /\ Len(p) <= Len(h)
    /\ \A i \in DOMAIN p : h[i] = p[i]

\* C15: over every step (register, update, delete, a step of a tick, the
\* clock) the history of each task before the step is a prefix of its history
\* after it, and at most one record longer.
C15_HistoryAppendOnly ==
    [][ \A r \in DOMAIN objs \cap DOMAIN objs' :
          /\ IsPrefix(objs[r].history, objs'[r].history)
          /\ Len(objs'[r].history) <= Len(objs[r].history) + 1 ]_vars

\* update has just replaced the definition of a task that holds two records,
\* a success and a failure
C15_Witness ==
    /\ ev.op = "update"
    /\ ev.out = "returned"
    /\ LET T == objs[StoreRef(store, ev.id)]
       IN /\ T.func = "g"
          /\ Len(T.history) = 2
          /\ {T.history[1].status, T.history[2].status} = {SUCCESS, FAILED}

\* --------------------------------------------------------------------- C16
\* C16: the step in which the work of a task raises changes, of that task,
\* its status (to Failed), its error (to the description of the exception)
\* and its history (one Failed record more) and nothing else; its result is
\* as before, which is the value of its most recent successful run, null if
\* it has none, and its last_success_at is as before.
C16_FailureKeepsResult ==
    [][ \A t \in Tickers :
          (Leaving(t) /\ Val(cur[t]).task \in DOMAIN objs'
              /\ objs'[Val(cur[t]).task].status = FAILED) =>
             LET x == Val(cur[t]).task
                 old == objs[x]
                 new == objs'[x]
                 rec == new.history[Len(new.history)]
             IN /\ new = [old EXCEPT !.status = FAILED,
                                     !.error_message = new.error_message,
                                     !.history = new.history]
                /\ new.result = old.result
                /\ new.last_success_at = old.last_success_at
                /\ new.error_message # None
                /\ new.history = Append(old.history, rec)
                /\ rec.status = FAILED /\ rec.error = new.error_message
                /\ IF \E i \in DOMAIN new.history : new.history[i].status = SUCCESS
                   THEN /\ new.result # None
                        /\ Some(Repr(new.result)) = LastSuccessResult(new.history)
                   ELSE new.result = None
                /\ \A r \in DOMAIN objs' \ {x} : objs'[r] = objs[r] ]_vars

\* the work of a task has raised after an earlier success: Failed, with the
\* result and the last_success_at of that success
C16_Witness ==
    \E i \in DOMAIN store :
        LET T == objs[store[i].ref]
        IN /\ T.status = FAILED
           /\ T.error_message = Some(BoomError)
           /\ Len(T.history) = 2
           /\ T.history[1].status = SUCCESS
           /\ T.history[2].status = FAILED
           /\ T.result # None
           /\ T.history[1].result = Some(Repr(T.result))
           /\ T.last_success_at # None
           /\ Val(T.last_success_at) < Val(T.last_run_at)

\* --------------------------------------------------------------------- C17
\* C17: the step in which the work of a task returns sets its status to
\* Success, its result to the value returned, its error to null and its
\* last_success_at to the time of that step, which is not before its
\* last_run_at, the now taken by the tick that called it.
C17_SuccessEffects ==
    [][ \A t \in Tickers :
          (Leaving(t) /\ Val(cur[t]).task \in DOMAIN objs'
              /\ objs'[Val(cur[t]).task].status = SUCCESS) =>
             LET c == Val(cur[t])
                 old == objs[c.task]
                 new == objs'[c.task]
             IN /\ new.result = Some(ResultOf(c.call))
                /\ new.error_message = None
                /\ new.last_success_at = Some(clock)
                /\ new.last_run_at = old.last_run_at
                /\ new.last_run_at = Some(now[t])
                /\ Val(new.last_success_at) >= Val(new.last_run_at)
                /\ new.history = Append(old.history,
                                        [run_at |-> now[t], status |-> SUCCESS,
                                         result |-> Some(Repr(new.result)),
                                         error |-> None]) ]_vars

\* the work of a task that had failed before has returned some time after the
\* tick took its now: Success, no error, last_success_at after last_run_at
C17_Witness ==
    \E i \in DOMAIN store :
        LET T == objs[store[i].ref]
        IN /\ T.status = SUCCESS
           /\ T.result # None
           /\ T.error_message = None
           /\ Len(T.history) = 2
           /\ T.history[1].status = FAILED
           /\ T.history[2].status = SUCCESS
           /\ T.last_success_at # None
           /\ Val(T.last_success_at) > Val(T.last_run_at)

\* --------------------------------------------------------------------- C18
\* the fields update replaces, and the fields the registry manages
DefinitionFields == {"tags", "every", "at", "run_at", "func", "args", "kwargs", "depends_on"}
RuntimeFields == {"status", "last_run_at", "last_success_at", "result", "error_message", "history"}

\* C18: update(task) with exactly one schedule option, for an id in the store,
\* returns; the task stored under that id is then the same object with the
\* tags, every, at, run_at, func, args, kwargs and depends_on of the argument
\* and with its id, status, last_run_at, last_success_at, result, error and
\* history as before; the store's ids and order and every other task are as
\* before.
C18_UpdateFrame ==
    [][ (ev'.op = "update" /\ ev'.id \in StoreKeys(store)
            /\ ExactlyOneSchedule(ev'.task)) =>
           LET x == StoreRef(store, ev'.id)
           IN /\ ev'.out = "returned"
              /\ store' = store
              /\ DOMAIN objs' = DOMAIN objs
              /\ \A f \in DefinitionFields : objs'[x][f] = ev'.task[f]
              /\ \A f \in RuntimeFields \cup {"id"} : objs'[x][f] = objs[x][f]
              /\ DOMAIN objs'[x] = DefinitionFields \cup RuntimeFields \cup {"id"}
              /\ \A r \in DOMAIN objs \ {x} : objs'[r] = objs[r] ]_vars

\* update has just replaced the definition of a task whose work is running,
\* a second task being stored: new work and a dependency, the runtime state
\* of the run in progress kept
C18_Witness ==
    /\ ev.op = "update"
    /\ ev.out = "returned"
    /\ Len(store) = 2
    /\ LET T == objs[StoreRef(store, ev.id)]
       IN /\ T.status = RUNNING
          /\ T.last_run_at # None
          /\ T.func = "g"
          /\ T.tags = <<"t">>
          /\ T.depends_on = <<"B">>
          /\ T.history # <<>>

\* --------------------------------------------------------------------- C19
\* C19: update(task) with none or more than one of every, at and run_at set
\* raises ValueError, and the store and every task, the one stored under
\* task.id included, are as before the call.
C19_UpdateRejected ==
    [][ (ev'.op = "update" /\ ~ExactlyOneSchedule(ev'.task)) =>
           /\ ev'.out = "ValueError: schedule"
           /\ store' = store
           /\ objs' = objs ]_vars

\* update with two schedule options has just been refused for a stored task
\* whose work is running; the task has the definition it was registered with
C19_Witness ==
    /\ ev.op = "update"
    /\ ev.out = "ValueError: schedule"
    /\ ev.task.every # None /\ ev.task.at # None
    /\ ev.id \in StoreKeys(store)
    /\ LET T == objs[StoreRef(store, ev.id)]
       IN /\ T.status = RUNNING
          /\ T.func = "f"
          /\ T.at = None

\* --------------------------------------------------------------------- C20
\* C20 as stated: delete(id) removes the task stored under id, if there is
\* one, and returns true; otherwise it leaves the store as it is and returns
\* false: the boolean returned tells whether something was removed.
C20_AsStated ==
    [][ ev'.op = "delete" =>
           LET removed == ev'.id \in StoreKeys(store)
           IN /\ ev'.out = "returned"
              /\ ev'.ret = Some(removed)
              /\ store' = (IF removed THEN StoreDel(store, ev'.id) ELSE store)
              /\ ev'.id \notin StoreKeys(store')
              /\ \A r \in DOMAIN objs' : objs'[r] = objs[r] ]_vars

\* delete has just removed a stored task, another one staying, and has
\* returned no value
C20_Witness ==
    /\ ev.op = "delete"
    /\ ev.out = "returned"
    /\ ev.ret = None
    /\ ev.id \notin StoreKeys(store)
    /\ Len(store) = 1
    /\ \E r \in DOMAIN objs : objs[r].id = ev.id /\ objs[r].status = RUNNING

\* --------------------------------------------------------------------- C21
\* what the contract of register makes of a call with this task in the
\* current state: how the call ends, what it returns, the store and the tasks
\* after it
RegisterContract(task) ==
    IF ExactlyOneSchedule(task) /\ task.id \notin StoreKeys(store)
    THEN [out |-> "returned", ret |-> Some(nalloc + 1),
          store |-> Append(store, [key |-> task.id, ref |-> nalloc + 1]),
          objs |-> [r \in DOMAIN objs \cup {nalloc + 1} |->
                        IF r = nalloc + 1 THEN task ELSE objs[r]]]
    ELSE [out |-> IF ~ExactlyOneSchedule(task) THEN "ValueError: schedule"
                  ELSE "ValueError: duplicate",
          ret |-> None, store |-> store, objs |-> objs]

C22_AsStated ==
    [][ /\ \A t \in Tickers :
              /\ Invoking(t) => Val(cur'[t]).task \in StoreRefs(store)
              /\ Selecting(t) =>
                    \A i \in DOMAIN store :
                        (Fresh(objs[store[i].ref]) /\ ShouldRun(objs[store[i].ref], now'[t])
                            /\ ~Blocked(objs[store[i].ref]))
                        => store[i].ref \in Queued(queue'[t])
        /\ (ev'.op \in {"register", "add_task_dynamically"} /\ ev'.out = "returned") =>
              /\ Val(ev'.ret) \notin DOMAIN objs
              /\ Fresh(objs'[Val(ev'.ret)]) ]_vars

\* a tick is about to call the work of a task whose removal has returned: the
\* task was selected by phase 1 and removed before its turn in phase 2
C22_Witness ==
    \E t \in Tickers :
        /\ ev = Quiet
        /\ pc[t] = "exec"
        /\ queue[t] # <<>>
        /\ Head(queue[t]).task \notin StoreRefs(store)

\* --------------------------------------------------------------------- C23
\* thread t begins a tick in this step
Beginning(t) == pc[t] = "idle" /\ pc'[t] # "idle"

\* thread t is in phase 2 with work still to do or in progress
InPhase2(t) == pc[t] \notin {"idle", "lock"} /\ (queue[t] # <<>> \/ cur[t] # None)

\* C23 as stated: no tick begins, and no phase 1 starts, while the phase 2 of
\* another tick on the same registry still has work to do or in progress.
C23_AsStated ==
    [][ \A t \in Tickers : (Beginning(t) \/ Selecting(t)) =>
            \A u \in Tickers \ {t} : ~InPhase2(u) ]_vars

\* C23, amended: the ticks of one thread never overlap: a thread begins a tick,
\* and starts its phase 1, only when the list of its previous tick is empty
\* and no call of it is in progress; and a phase 1 that starts while no other
\* thread is in phase 2 finds no stored task Running.  Ticks called by
\* different threads do overlap.
C23_OwnTicksInOrder ==
    [][ \A t \in Tickers :
          /\ (Beginning(t) \/ Selecting(t)) => (queue[t] = <<>> /\ cur[t] = None)
          /\ (Selecting(t) /\ \A u \in Tickers \ {t} : pc[u] \in {"idle", "lock"}) =>
                \A i \in DOMAIN store : objs[store[i].ref].status # RUNNING ]_vars

\* a thread has gone through phase 1 of a tick begun while the work called by
\* another thread's earlier tick is still running
C23_Witness ==
    \E t \in Tickers : \E u \in Tickers \ {t} :
        /\ pc[u] = "work"
        /\ pc[t] = "exec"
        /\ now[t] > now[u]
        /\ objs[Val(cur[u]).task].status = RUNNING

\* --------------------------------------------------------------------- C24
\* C24: while a tick is in phase 2, a work function running or not, no thread
\* holds the registry lock; register, update and delete called then (by the
\* work function or by any thread) are not kept waiting and end in that step;
\* and the next phase 1 reads the store as these calls left it: it selects
\* only stored tasks, and a stored task that is not Running exactly when its
\* current schedule makes it due and its current dependencies are ready.
C24_NoLockInPhase2 ==
    [][ \A t \in Tickers :
          /\ pc[t] \in {"exec", "work"} => lock = None
          /\ (pc[t] = "work" /\ ev = Quiet) =>
                /\ \A id \in Ids : ENABLED Delete(id)
                /\ \A task \in UpdIn : ENABLED Update(task)
                /\ nalloc < MaxObjs => \A task \in RegIn : ENABLED Register(task)
          /\ Selecting(t) =>
                /\ Queued(queue'[t]) \subseteq StoreRefs(store)
                /\ \A i \in DOMAIN store :
                      LET T == objs[store[i].ref]
                      IN T.status # RUNNING =>
                            (store[i].ref \in Queued(queue'[t])
                                <=> (ShouldRun(T, now'[t]) /\ ~Blocked(T))) ]_vars

\* register has just returned while a work function is running: the task it
\* stored is there for the next tick
C24_Witness ==
    \E t \in Tickers :
        /\ pc[t] = "work"
        /\ lock = None
        /\ ev.op = "register"
        /\ ev.out = "returned"
        /\ Len(store) = 2
        /\ store[2].ref = Val(ev.ret)
        /\ Val(cur[t]).task = store[1].ref

\* --------------------------------------------------------------------- C25
\* the changes of status the state machine of a task allows
StatusChanges ==
    { <<PENDING, RUNNING>>, <<SUCCESS, RUNNING>>, <<FAILED, RUNNING>>,
      <<RUNNING, SUCCESS>>, <<RUNNING, FAILED>> }

\* C25: a step changes the status of a task only from Pending, Success or
\* Failed to Running (phase 1 of a tick) or from Running to Success or Failed
\* (the end of a call of its work); a step of register, add, update or delete
\* changes no status, and a task enters the store Pending.
C25_StatusMachine ==
    [][ /\ \A r \in DOMAIN objs \cap DOMAIN objs' :
              objs'[r].status # objs[r].status =>
                  /\ <<objs[r].status, objs'[r].status>> \in StatusChanges
                  /\ ev' = Quiet
                  /\ objs'[r].status = RUNNING =>
                        \E t \in Tickers : Selecting(t) /\ r \in Queued(queue'[t])
                  /\ objs[r].status = RUNNING =>
                        \E t \in Tickers : Leaving(t) /\ Val(cur[t]).task = r
        /\ \A r \in DOMAIN objs' \ DOMAIN objs :
              /\ objs'[r].status = PENDING
              /\ ev'.op \in {"register", "add_task_dynamically"} ]_vars

\* a task that failed is Running again, its definition replaced by update in
\* between: Pending, Running, Failed, Running
C25_Witness ==
    \E i \in DOMAIN store :
        LET T == objs[store[i].ref]
        IN /\ T.status = RUNNING
           /\ Len(T.history) = 1
           /\ T.history[1].status = FAILED
           /\ T.last_run_at # Some(T.history[1].run_at)
           /\ T.func = "g"

\* --------------------------------------------------------------------- C26
\* C26: when phase 1 of a tick has found a task not Running, due and with
\* every dependency stored and once successful, and a dependency is gone from
\* the store when its result is collected, then the task is Failed with the
\* error "Dependency data not found during tick: '<id>'", its last_run_at is
\* the now of the tick, its history has one record more, Failed, with that
\* time and that error and no result, the rest of the task is as before, and
\* the task is not in the tick's list; and a task that such a record of the
\* tick in progress stands for is neither listed nor called in that tick.
C26_VanishedDependency ==
    [][ \A t \in Tickers :
          /\ (Selecting(t) /\ ev'.op = "vanish" /\ ev'.during \in DOMAIN objs') =>
                LET x == ev'.during
                    T == objs[x]
                    N == objs'[x]
                    msg == "Dependency data not found during tick: '" \o ev'.id \o "'"
                IN ( /\ T.status # RUNNING
                     /\ ShouldRun(T, now'[t])
                     /\ DepsReady(T, store, objs)
                     /\ \E i \in DOMAIN T.depends_on : T.depends_on[i] = ev'.id ) =>
                        /\ N.status = FAILED
                        /\ N.error_message = Some(msg)
                        /\ N.last_run_at = Some(now'[t])
                        /\ N.history = Append(T.history,
                                              [run_at |-> now'[t], status |-> FAILED,
                                               result |-> None, error |-> Some(msg)])
                        /\ N = [T EXCEPT !.status = N.status,
                                         !.error_message = N.error_message,
                                         !.last_run_at = N.last_run_at,
                                         !.history = N.history]
                        /\ x \notin Queued(queue'[t])
          /\ pc[t] \in {"exec", "work"} =>
                \A x \in DOMAIN objs :
                    ( /\ objs[x].history # <<>>
                      /\ objs[x].history[Len(objs[x].history)].run_at = now[t]
                      /\ objs[x].history[Len(objs[x].history)].error
                            \in {Some(DepError(d)) : d \in Ids} ) =>
                        /\ x \notin Queued(queue[t])
                        /\ cur[t] # None => Val(cur[t]).task # x
                        /\ Invoking(t) => Val(cur'[t]).task # x ]_vars

\* a dependency that had succeeded has just vanished under a task that was
\* due: the task is Failed for it, with a record at the tick's now, and the
\* tick's list is empty
C26_Witness ==
    \E t \in Tickers :
        /\ ev.op = "vanish"
        /\ pc[t] = "exec"
        /\ queue[t] = <<>>
        /\ ev.id \notin StoreKeys(store)
        /\ ev.during \in StoreRefs(store)
        /\ LET T == objs[ev.during]
           IN /\ T.status = FAILED
              /\ T.depends_on = <<ev.id>>
              /\ T.error_message = Some(DepError(ev.id))
              /\ T.last_run_at = Some(now[t])
              /\ T.history # <<>>
              /\ T.history[Len(T.history)].run_at = now[t]

\* --------------------------------------------------------------------- C27
\* C27: a step of a tick (or of the clock) leaves the store as it is, keys,
\* order and task objects; the store gains an entry only in a step of register
\* or add_task_dynamically that returns, and loses one only in a step of
\* delete, the entry of the id passed; so a one-shot task that has been
\* attempted stays stored, Success or Failed, until a delete of its id.
C27_TickKeepsStore ==
    [][ /\ ev'.op \in {"none", "update"} => store' = store
        /\ ev'.op \in {"register", "add_task_dynamically"} =>
              \/ store' = store
              \/ ev'.out = "returned" /\ Len(store') = Len(store) + 1
                    /\ SubSeq(store', 1, Len(store)) = store
        /\ ev'.op = "delete" => store' = StoreDel(store, ev'.id)
        /\ \A i \in DOMAIN store :
              LET T == objs[store[i].ref]
              IN (T.run_at # None /\ T.last_run_at # None
                    /\ ~(ev'.op = "delete" /\ ev'.id = store[i].key)) =>
                    /\ \E j \in DOMAIN store' : store'[j] = store[i]
                    /\ objs'[store[i].ref].status \in {RUNNING, SUCCESS, FAILED} ]_vars

\* a one-shot task that succeeded at an earlier tick is still stored after a
\* later tick has gone through phase 1
C27_Witness ==
    \E t \in Tickers : \E i \in DOMAIN store :
        LET T == objs[store[i].ref]
        IN /\ pc[t] = "exec"
           /\ T.run_at # None
           /\ T.status = SUCCESS
           /\ Len(T.history) = 1
           /\ now[t] > Val(T.last_run_at)
           /\ now[t] > Val(T.last_success_at)

\* --------------------------------------------------------------------- C28
\* what the claim accepts: a mapping that is not empty, of allowed unit names
\* to counts that are not negative
EveryAsClaimed(v) ==
    /\ DOMAIN v # {}
    /\ DOMAIN v \subseteq AllowedUnits
    /\ \A k \in DOMAIN v : v[k] >= 0

\* C28 as stated: Task(every=v) is constructed exactly when v is not empty,
\* all its keys are unit names and all its counts are non-negative; no task
\* with another mapping is ever stored.
C28_AsStated ==
    [][ /\ ev'.op = "Task" => (ev'.out = "constructed" <=> EveryAsClaimed(ev'.every))
        /\ \A i \in DOMAIN store' :
              objs'[store'[i].ref].every # None =>
                  EveryAsClaimed(Val(objs'[store'[i].ref].every)) ]_vars

\* a task whose interval has a negative count is stored
C28_Witness ==
    \E i \in DOMAIN store :
        LET T == objs[store[i].ref]
        IN /\ T.every # None
           /\ DOMAIN Val(T.every) = {"seconds"}
           /\ Val(T.every)["seconds"] < 0

\* --------------------------------------------------------------------- C29
\* C29 as stated: start_scheduler(interval, blocking=False) starts a daemon
\* thread on the loop and returns, to the caller, a handle to that thread,
\* which is alive; start_scheduler(interval, blocking=True) runs the loop on
\* the calling thread and does not return; the thread in the loop ticks again
\* after each tick, for ever.
C29_AsStated ==
    [][ /\ ev'.op = "start_scheduler" =>
              IF ev'.blocking
              THEN /\ ev'.out = "in loop"
                   /\ ev'.worker = Direct
                   /\ pc'[Direct] = "idle"
              ELSE /\ ev'.out = "returned"
                   /\ ev'.daemon
                   /\ ev'.worker = Driver
                   /\ pc'[Driver] = "idle"
                   /\ ev'.ret = Some(ev'.worker)
        /\ \A t \in Tickers : pc[t] # "off" => pc'[t] # "off" ]_vars

\* start_scheduler(blocking=False) has returned nothing, and the thread it
\* started is in the loop
C29_Witness ==
    /\ ev.op = "start_scheduler"
    /\ ~ev.blocking
    /\ ev.out = "returned"
    /\ ev.ret = None
    /\ pc[Driver] = "idle"
    /\ Len(store) = 2

\* --------------------------------------------------------------------- C30
\* the items of the list q stand in the order of their tasks in the store st
InStoreOrder(q, st) ==
    \A i, j \in DOMAIN q :
        i < j => \E a, b \in DOMAIN st : /\ a < b
                                         /\ st[a].ref = q[i].task
                                         /\ st[b].ref = q[j].task

\* every call thread t has made in its tick is over: its record is in the
\* history of its task
CallsOver(t) ==
    \A c \in made[t] : c[1] \in DOMAIN objs => Len(objs[c[1]].history) >= c[2]

\* C30: phase 1 of a tick leaves every task it selected RUNNING with
\* last_run_at the one time the tick read, and its list in store order, no work
\* function called yet; they are so still when the first work function is
\* called; each call of a work function is for the head of the list, and every
\* earlier call of the tick is over when it is made.
C30_SelectedThenSequential ==
    [][\A t \in Tickers :
        /\ Selecting(t) =>
              /\ cur'[t] = None
              /\ made'[t] = {}
              /\ InStoreOrder(queue'[t], store')
              /\ \A i \in DOMAIN queue'[t] :
                    /\ queue'[t][i].run_time = now'[t]
                    /\ objs'[queue'[t][i].task].status = RUNNING
                    /\ objs'[queue'[t][i].task].last_run_at = Some(now'[t])
        /\ (Invoking(t) /\ made[t] = {}) =>
              \A i \in DOMAIN queue[t] :
                    /\ objs[queue[t][i].task].status = RUNNING
                    /\ objs[queue[t][i].task].last_run_at = Some(now[t])
        /\ Invoking(t) =>
              /\ cur[t] = None
              /\ CallsOver(t)
              /\ Val(cur'[t]).task = Head(queue[t]).task
              /\ Val(cur'[t]).run_time = now[t]
              /\ queue'[t] = Tail(queue[t]) ]_vars

\* a tick selected two tasks, the first one's call is over and recorded, and
\* the work function of the second one is running
C30_Witness ==
    /\ pc[Driver] = "work"
    /\ Cardinality(made[Driver]) = 2
    /\ queue[Driver] = <<>>
    /\ \E c \in made[Driver] :
          /\ c[1] # Val(cur[Driver]).task
          /\ c[1] \in DOMAIN objs
          /\ Len(objs[c[1]].history) = c[2]
          /\ objs[c[1]].last_run_at = Some(now[Driver])
    /\ objs[Val(cur[Driver]).task].status = RUNNING
    /\ objs[Val(cur[Driver]).task].last_run_at = Some(now[Driver])

\* --------------------------------------------------------------------- C31
\* the tasks thread t has marked Running and whose outcome it has not written
\* yet: those waiting in its list, and the one whose work function it has
\* called, until the status of the outcome is assigned
Held(t) ==
    Queued(queue[t]) \cup
        (IF pc[t] \in {"work", "returned"} THEN {Val(cur[t]).task} ELSE {})

\* C31: with several threads ticking, a task one tick has marked Running and
\* not yet given its outcome is Running, is held by no other tick, and is not
\* selected by the phase 1 of any other tick: the work of a task is never
\* called by two ticks at once.
C31_NeverInFlightTwice ==
    [][ \A t \in Tickers : \A u \in Tickers \ {t} :
          /\ Held(t) \cap Held(u) = {}
          /\ \A r \in Held(t) : objs[r].status = RUNNING
          /\ Selecting(u) => Queued(queue'[u]) \cap Held(t) = {}
          /\ (pc[t] = "work" /\ pc[u] = "work") =>
                Val(cur[t]).task # Val(cur[u]).task ]_vars

\* two ticks overlap: one is in the work function of a task that is due again,
\* the other one has gone through its phase 1 since and has not taken it
C31_Witness ==
    \E t \in Tickers : \E u \in Tickers \ {t} :
        /\ pc[t] = "work"
        /\ pc[u] \in {"exec", "work"}
        /\ now[u] > now[t]
        /\ LET T == objs[Val(cur[t]).task]
           IN /\ T.every # None
              /\ now[u] - Val(T.last_run_at) >= Timedelta(Val(T.every))
              /\ Val(cur[t]).task \in StoreRefs(store)
              /\ Val(cur[t]).task \notin Held(u)

\* --------------------------------------------------------------------- C32
\* the task r is on the list of a tick in progress, or in its call
InATick(r) ==
    \E t \in Tickers : \/ r \in Queued(queue[t])
                       \/ pc[t] = "work" /\ Val(cur[t]).task = r

\* C32: the call of a selected task's work, returning or raising, ends with the
\* task Success or Failed; tick returns with its list run through and none of
\* the tasks it called Running; a task is Running only while it is on the list
\* or in the call of a tick in progress, so none is Running once tick is over.
C32_NoneLeftRunning ==
    [][ /\ \A t \in Tickers :
             /\ Leaving(t) =>
                   LET r == Val(cur[t]).task
                   IN r \in DOMAIN objs' => objs'[r].status \in {SUCCESS, FAILED}
             /\ (pc[t] = "exec" /\ pc'[t] = "idle") =>
                   /\ queue[t] = <<>>
                   /\ \A c \in made[t] :
                         c[1] \in DOMAIN objs' => objs'[c[1]].status \in {SUCCESS, FAILED}
        /\ \A r \in DOMAIN objs : objs[r].status = RUNNING => InATick(r)
        /\ (\A t \in Tickers : pc'[t] = "idle") =>
              \A r \in DOMAIN objs' : objs'[r].status # RUNNING ]_vars

\* a tick that selected two tasks is over: one of them has succeeded, the
\* other one has failed, and neither is Running
C32_Witness ==
    /\ \A t \in Tickers : pc[t] = "idle"
    /\ ev = Quiet
    /\ \E i, j \in DOMAIN store :
          LET A == objs[store[i].ref]
              B == objs[store[j].ref]
          IN /\ A.status = SUCCESS
             /\ B.status = FAILED
             /\ A.last_run_at = B.last_run_at
             /\ A.last_run_at # None

\* --------------------------------------------------------------------- C33
\* C33 as stated: what the work of a selected task is called with is what its
\* task had when phase 1 selected it: while the task waits on the list of the
\* tick nothing changes the function, the args or the kwargs of the call to
\* come, an update included, and the call is made with them.
C33_AsStated ==
    [][ \A t \in Tickers :
          /\ queue'[t] = queue[t] =>
                \A k \in DOMAIN queue[t] :
                    PendingCall(queue[t][k], objs') = PendingCall(queue[t][k], objs)
          /\ Invoking(t) =>
                LET c == Val(cur'[t])
                IN [func |-> c.func, args |-> c.args, kwargs |-> c.kwargs]
                       = PendingCall(Head(queue[t]), objs) ]_vars

\* C33, amended: the dependency arguments of the call are those phase 1 read;
\* the function, the args and the declared kwargs are those of the task when
\* the call is made.  While a selected task waits on the list, an update of it
\* that returns, and nothing else, changes the call to come: to the function,
\* args and kwargs of the update, with the dependency arguments of phase 1.
C33_UpdateReachesPendingCall ==
    [][ \A t \in Tickers :
          /\ Invoking(t) =>
                LET item == Head(queue[t])
                    T == objs[item.task]
                    c == Val(cur'[t])
                IN /\ c.func = T.func
                   /\ c.args = T.args
                   /\ c.kwargs = Merge(T.kwargs, item.dep_kwargs)
                   /\ c.dep_kwargs = item.dep_kwargs
          /\ queue'[t] = queue[t] =>
                \A k \in DOMAIN queue[t] :
                    LET item == queue[t][k]
                        updated == /\ ev'.op = "update"
                                   /\ ev'.out = "returned"
                                   /\ ev'.id \in StoreKeys(store)
                                   /\ StoreRef(store, ev'.id) = item.task
                    IN /\ \A d \in DOMAIN item.dep_kwargs :
                              PendingCall(item, objs').kwargs[d] = item.dep_kwargs[d]
                       /\ PendingCall(item, objs') # PendingCall(item, objs) => updated
                       /\ updated =>
                              PendingCall(item, objs') =
                                  [func |-> ev'.task.func, args |-> ev'.task.args,
                                   kwargs |-> Merge(ev'.task.kwargs, item.dep_kwargs)] ]_vars

\* a task selected with f and no dependency was updated to g and a dependency
\* on B before its turn: g is running, called with no dependency argument
C33_Witness ==
    \E t \in Tickers :
        /\ pc[t] = "work"
        /\ LET c == Val(cur[t])
           IN /\ c.func = "g"
              /\ c.args = <<>>
              /\ DOMAIN c.kwargs = {}
              /\ DOMAIN c.dep_kwargs = {}
              /\ objs[c.task].depends_on = <<"B">>
              /\ objs[c.task].history = <<>>

\* --------------------------------------------------------------------- C34
\* the threads inside a with self._lock block
InSection ==
    {t \in Tickers : pc[t] = "locked"}
        \cup (IF ev # Quiet /\ ev.out = "in lock" THEN {CallerThread} ELSE {})

\* C34: at most one thread is inside the block of register, update, delete or
\* of a tick's phase 1; the lock is held exactly while a thread is inside such
\* a block, by that thread; and a call that ends, by raising as by returning,
\* leaves the lock free, a raising call having written nothing.
C34_LockHeldOnlyInSection ==
    [][ /\ Cardinality(InSection) <= 1
        /\ lock = None <=> InSection = {}
        /\ lock # None => InSection = {Val(lock)}
        /\ (ev # Quiet /\ ev.out = "in lock" /\ ev' # ev) =>
              /\ ev'.op = ev.op
              /\ ev'.out # "in lock"
              /\ lock' = None
              /\ ev'.out # "returned" => store' = store /\ objs' = objs
        /\ \A t \in Tickers :
              (pc[t] = "locked" /\ pc'[t] # "locked") => lock' = None /\ pc'[t] = "exec" ]_vars

\* register has raised for an id in use, and a tick that was waiting for the
\* lock has taken it since
C34_Witness ==
    \E t \in Tickers :
        /\ ev # Quiet
        /\ ev.op = "register"
        /\ ev.out = "ValueError: duplicate"
        /\ pc[t] = "locked"
        /\ lock = Some(t)
        /\ \E u \in Tickers \ {t} : pc[u] = "lock"

\* --------------------------------------------------------------------- C35
\* the errors of the except KeyError branch of phase 1
DepErrors == {Some(DepError(d)) : d \in Ids}

\* C35: with the store written by register, update and delete only, phase 1
\* never takes its except KeyError branch: it appends no record to any history
\* and leaves every task it does not queue as it was, and no task ever bears
\* the error "Dependency data not found during tick", in its error_message or
\* in a record of its history.
C35_NoDependencyDataNotFound ==
    [][ /\ \A t \in Tickers :
              Selecting(t) =>
                  \A r \in DOMAIN objs :
                      /\ objs'[r].history = objs[r].history
                      /\ r \notin Queued(queue'[t]) => objs'[r] = objs[r]
                      /\ r \in Queued(queue'[t]) => FirstMissing(objs[r], store) = 0
        /\ \A r \in DOMAIN objs' :
              /\ objs'[r].error_message \notin DepErrors
              /\ \A k \in DOMAIN objs'[r].history :
                    objs'[r].history[k].error \notin DepErrors ]_vars

\* a tick has gone through its phase 1 while a task was due whose dependency
\* was not in the store: the task was passed over, with no error
C35_Witness ==
    \E t \in Tickers : \E i \in DOMAIN store :
        LET T == objs[store[i].ref]
        IN /\ pc[t] = "exec"
           /\ ev = Quiet
           /\ nalloc >= 2
           /\ T.depends_on # <<>>
           /\ FirstMissing(T, store) # 0
           /\ T.status = PENDING
           /\ ShouldRun(T, now[t])
           /\ T.error_message = None
           /\ T.history = <<>>

\* --------------------------------------------------------------------- C36
\* C36: a step of a tick changes no task object but the ones the tick selects:
\* phase 1 the tasks it puts on its list, the end of a call the task called.
\* Of these it changes runtime fields only: the id, the schedule, func, args,
\* kwargs, depends_on and tags of every task are as before the step.
C36_TickFrame ==
    [][ \A t \in Tickers :
          pc'[t] # pc[t] =>
              \A r \in DOMAIN objs \cap DOMAIN objs' :
                  /\ \A f \in DefinitionFields \cup {"id"} : objs'[r][f] = objs[r][f]
                  /\ objs'[r] # objs[r] =>
                        \/ Selecting(t) /\ r \in Queued(queue'[t])
                        \/ Leaving(t) /\ r = Val(cur[t]).task ]_vars

\* a tick has called the one task it selected; another stored task, not due
\* or not ready, is as it was registered
C36_Witness ==
    \E t \in Tickers : \E i, j \in DOMAIN store :
        LET A == objs[store[i].ref]
            B == objs[store[j].ref]
        IN /\ pc[t] = "exec"
           /\ queue[t] = <<>>
           /\ Cardinality(made[t]) = 1
           /\ A.last_run_at = Some(now[t])
           /\ Len(A.history) = 1
           /\ B = Task(B.id, [every |-> B.every, at |-> B.at, run_at |-> B.run_at],
                       NewWork, B.depends_on)
           /\ ~(ShouldRun(B, now[t]) /\ ~Blocked(B))

\* --------------------------------------------------------------------- C37
\* C37: in every step, the last_success_at of a task that has one stays set
\* and does not decrease; the end of a call that raised leaves it as it was;
\* and a task whose dependencies were all stored and once successful finds
\* them so after the step, unless the step changed its depends_on or took one
\* of them out of the store.
C37_SuccessStampMonotone ==
    [][ /\ \A r \in DOMAIN objs \cap DOMAIN objs' :
              /\ objs[r].last_success_at # None =>
                    /\ objs'[r].last_success_at # None
                    /\ Val(objs'[r].last_success_at) >= Val(objs[r].last_success_at)
              /\ (objs'[r].status = FAILED /\ objs[r].status # FAILED) =>
                    objs'[r].last_success_at = objs[r].last_success_at
        /\ \A i \in DOMAIN store :
              LET r == store[i].ref
                  T == objs[r]
              IN ( /\ DepsReady(T, store, objs)
                   /\ r \in DOMAIN objs'
                   /\ objs'[r].depends_on = T.depends_on
                   /\ \A k \in DOMAIN T.depends_on :
                         /\ T.depends_on[k] \in StoreKeys(store')
                         /\ StoreRef(store', T.depends_on[k]) = StoreRef(store, T.depends_on[k]) )
                 => DepsReady(objs'[r], store', objs') ]_vars

\* a dependency that succeeded once has failed since: its last_success_at is
\* that of the success, and the gate of its dependent is still open
C37_Witness ==
    \E i, j \in DOMAIN store :
        LET A == objs[store[i].ref]
            B == objs[store[j].ref]
        IN /\ B.depends_on = <<A.id>>
           /\ A.status = FAILED
           /\ A.last_success_at # None
           /\ Val(A.last_run_at) > Val(A.last_success_at)
           /\ DepsReady(B, store, objs)

\* --------------------------------------------------------------------- C38
\* what the claim says of one task
StatusAgrees(T) ==
    /\ T.status = SUCCESS => T.error_message = None /\ T.last_success_at # None
    /\ T.status = FAILED => T.error_message # None
    /\ T.status = RUNNING => T.error_message = None

\* C38 as stated: in every state, a Success task has no error and a
\* last_success_at, a Failed task has an error, a Running task has no error.
C38_AsStated ==
    \A r \in DOMAIN objs : StatusAgrees(objs[r])

\* thread t has assigned the status of the outcome to the task r and not yet
\* the field that goes with it: last_success_at after SUCCESS, error_message
\* after FAILED
StatusJustSet(t, r) ==
    /\ pc[t] \in {"succeeded", "raised"}
    /\ Val(cur[t]).task = r

\* C38, amended: with one thread ticking, a Success task has no error and a
\* last_success_at, a Failed task has an error and a Running task has none,
\* in every state but those between the assignment of the status that ends a
\* call and the assignment that follows it; there the task is Success or
\* Failed with no error, and a first success has no last_success_at yet.
C38_StatusAgreesBetweenCalls ==
    \A r \in DOMAIN objs :
        IF StatusJustSet(Driver, r)
        THEN /\ objs[r].error_message = None
             /\ objs[r].status = (IF pc[Driver] = "succeeded" THEN SUCCESS ELSE FAILED)
        ELSE StatusAgrees(objs[r])

\* the work of a task that failed the last time is running again: the task
\* is Running and the error of the failure is gone
C38_Witness ==
    /\ pc[Driver] = "work"
    /\ LET T == objs[Val(cur[Driver]).task]
       IN /\ T.status = RUNNING
          /\ T.error_message = None
          /\ T.history # <<>>
          /\ T.history[Len(T.history)].status = FAILED
          /\ T.history[Len(T.history)].error # None

\* --------------------------------------------------------------------- C39
\* the last record of a history is of the task's current status and last_run_at
LastRecordAgrees(T) ==
    /\ T.history[Len(T.history)].status = T.status
    /\ Some(T.history[Len(T.history)].run_at) = T.last_run_at

\* C39 as stated: in every state, every record of a history is Success or
\* Failed, and the last record of a task that is not Running is of the task's
\* status and last_run_at.
C39_AsStated ==
    \A r \in DOMAIN objs :
        /\ \A k \in DOMAIN objs[r].history :
              objs[r].history[k].status \in {SUCCESS, FAILED}
        /\ (objs[r].status # RUNNING /\ objs[r].history # <<>>) =>
              LastRecordAgrees(objs[r])

\* thread t has assigned the status of the outcome to the task r and not yet
\* appended the record of the call
RecordDue(t, r) ==
    /\ pc[t] \in {"succeeded", "stamped", "raised", "finally"}
    /\ Val(cur[t]).task = r

\* C39, amended: with one thread ticking, every record of a history is
\* Success or Failed, and the last record of a task that is not Running is of
\* the task's status and last_run_at, in every state but those between the
\* assignment of the status that ends a call and the append of its record;
\* there the task is Success or Failed, and its last record, if it has one, is
\* that of the attempt before, with an earlier run_at.
C39_LastRecordAgreesBetweenCalls ==
    \A r \in DOMAIN objs :
        LET T == objs[r]
        IN /\ \A k \in DOMAIN T.history : T.history[k].status \in {SUCCESS, FAILED}
           /\ IF RecordDue(Driver, r)
              THEN /\ T.status \in {SUCCESS, FAILED}
                   /\ T.last_run_at = Some(Val(cur[Driver]).run_time)
                   /\ T.history # <<>> =>
                         T.history[Len(T.history)].run_at < Val(T.last_run_at)
              ELSE (T.status # RUNNING /\ T.history # <<>>) => LastRecordAgrees(T)

\* a task has succeeded and then failed, no call in progress: its two records
\* are in that order, and the last one is of its status and last_run_at
C39_Witness ==
    /\ pc[Driver] = "idle"
    /\ \E r \in DOMAIN objs :
          LET T == objs[r]
          IN /\ Len(T.history) = 2
             /\ T.history[1].status = SUCCESS
             /\ T.history[2].status = FAILED
             /\ T.status = FAILED
             /\ T.last_run_at = Some(T.history[2].run_at)
             /\ T.history[1].run_at < T.history[2].run_at

\* --------------------------------------------------------------------- C40
\* C40: in every state, a task is Pending exactly when its last_run_at is
\* null, and a Pending task has an empty history and no result, error or
\* last_success_at: phase 1 takes a task out of Pending and stamps its
\* last_run_at in one block under the lock, and nothing makes a task Pending
\* or takes its last_run_at away.
C40_PendingIffNeverAttempted ==
    \A r \in DOMAIN objs :
        LET T == objs[r]
        IN /\ T.status = PENDING <=> T.last_run_at = None
           /\ T.status = PENDING =>
                 /\ T.history = <<>>
                 /\ T.result = None
                 /\ T.error_message = None
                 /\ T.last_success_at = None

\* the first call of a task's work is in progress: the task is Running with
\* the last_run_at of the tick, while its dependent, passed over by the same
\* tick, is Pending with nothing recorded
C40_Witness ==
    /\ pc[Driver] = "work"
    /\ LET T == objs[Val(cur[Driver]).task]
       IN /\ T.status = RUNNING
          /\ T.last_run_at = Some(now[Driver])
          /\ T.history = <<>>
          /\ \E j \in DOMAIN store :
                /\ objs[store[j].ref].depends_on = <<T.id>>
                /\ objs[store[j].ref].status = PENDING
                /\ objs[store[j].ref].last_run_at = None
                /\ ShouldRun(objs[store[j].ref], now[Driver])

====
